---- MODULE Spec2Model ----
(***************************************************************************)
(* Model of the RabbitMQ / MassTransit MCP server: the tool handlers that  *)
(* are registered on the server, the management-API calls they issue, and  *)
(* the pure helpers (queue naming, envelope parsing, destination           *)
(* resolution) they are built on.                                          *)
(*                                                                         *)
(* Strings are sequences of one-character strings, so that endsWith,       *)
(* slice, split and URL parsing are computed and not assumed.  A payload   *)
(* is a sequence of JSON lexemes; JSON.parse is a recursive-descent parser *)
(* over the lexemes.  JavaScript values are tagged records.                *)
(***************************************************************************)
EXTENDS Integers, Sequences, FiniteSets, TLC

(***************************************************************************)
(* Bounds of the model.                                                    *)
(***************************************************************************)
\* largest number of messages held by the broker, all queues together
MaxQueue == 2
\* largest `count` argument a caller passes (the schema allows up to 50)
MaxCount == 2

(***************************************************************************)
(* Strings.                                                                *)
(***************************************************************************)
Min(a, b) == IF a <= b THEN a ELSE b

Digits == {"0", "1", "2", "3", "4", "5", "6", "7", "8", "9"}

Letters == {"a", "b", "c", "d", "e", "f", "g", "h", "i", "j", "k", "l", "m",
            "n", "o", "p", "q", "r", "s", "t", "u", "v", "w", "x", "y", "z",
            "A", "B", "C", "D", "E", "F", "G", "H", "I", "J", "K", "L", "M",
            "N", "O", "P", "Q", "R", "S", "T", "U", "V", "W", "X", "Y", "Z"}

\* String.prototype.endsWith
EndsWith(s, suffix) ==
    /\ Len(suffix) <= Len(s)
    /\ SubSeq(s, Len(s) - Len(suffix) + 1, Len(s)) = suffix

\* String.prototype.startsWith
StartsWith(s, prefix) ==
    /\ Len(prefix) <= Len(s)
    /\ SubSeq(s, 1, Len(prefix)) = prefix

\* s.slice(0, -n) for 0 < n <= s.length
DropLast(s, n) == SubSeq(s, 1, Len(s) - n)

\* smallest index i >= from with s[i] \in stops, or Len(s) + 1 when none
RECURSIVE IndexOfAny(_, _, _)
IndexOfAny(s, stops, from) ==
    IF from > Len(s) THEN Len(s) + 1
    ELSE IF s[from] \in stops THEN from
    ELSE IndexOfAny(s, stops, from + 1)

\* String.prototype.split(sep) for a one-character separator
RECURSIVE Split(_, _)
Split(s, sep) ==
    LET i == IndexOfAny(s, {sep}, 1) IN
    IF i > Len(s) THEN <<s>>
    ELSE <<SubSeq(s, 1, i - 1)>> \o Split(SubSeq(s, i + 1, Len(s)), sep)

\* Array.prototype.filter(Boolean) on an array of strings: drops the empty ones
RECURSIVE FilterNonEmpty(_)
FilterNonEmpty(parts) ==
    IF parts = <<>> THEN <<>>
    ELSE IF Head(parts) = <<>> THEN FilterNonEmpty(Tail(parts))
    ELSE <<Head(parts)>> \o FilterNonEmpty(Tail(parts))

\* Array.prototype.join(sep) on an array of strings
RECURSIVE Join(_, _)
Join(parts, sep) ==
    IF parts = <<>> THEN <<>>
    ELSE IF Len(parts) = 1 THEN parts[1]
    ELSE parts[1] \o sep \o Join(Tail(parts), sep)

(***************************************************************************)
(* Queue naming (masstransit.ts).                                          *)
(***************************************************************************)
ERROR_SUFFIX == <<"_", "e", "r", "r", "o", "r">>
SKIPPED_SUFFIX == <<"_", "s", "k", "i", "p", "p", "e", "d">>

isErrorQueue(name) == EndsWith(name, ERROR_SUFFIX)

isSkippedQueue(name) == EndsWith(name, SKIPPED_SUFFIX)

\* variant of getSourceQueue that strips every suffix it finds
RECURSIVE getSourceQueueMutAll(_)
getSourceQueueMutAll(errorQueueName) ==
    IF EndsWith(errorQueueName, ERROR_SUFFIX)
    THEN getSourceQueueMutAll(DropLast(errorQueueName, Len(ERROR_SUFFIX)))
    ELSE IF EndsWith(errorQueueName, SKIPPED_SUFFIX)
    THEN getSourceQueueMutAll(DropLast(errorQueueName, Len(SKIPPED_SUFFIX)))
    ELSE errorQueueName
getSourceQueue(errorQueueName) ==
    IF EndsWith(errorQueueName, ERROR_SUFFIX)
    THEN DropLast(errorQueueName, Len(ERROR_SUFFIX))
    ELSE IF EndsWith(errorQueueName, SKIPPED_SUFFIX)
    THEN DropLast(errorQueueName, Len(SKIPPED_SUFFIX))
    ELSE errorQueueName

(***************************************************************************)
(* JavaScript values.                                                      *)
(***************************************************************************)
JUndefined == [k |-> "undefined"]
JNull == [k |-> "null"]
JBool(b) == [k |-> "bool", v |-> b]
\* a number is kept as its decimal digits
JNum(digits) == [k |-> "num", v |-> digits]
JStr(chars) == [k |-> "str", v |-> chars]
JArr(elems) == [k |-> "arr", v |-> elems]
\* an object is a function from its keys (strings) to values
JObj(members) == [k |-> "obj", v |-> members]

\* ToBoolean
Truthy(x) ==
    CASE x.k = "undefined" -> FALSE
      [] x.k = "null" -> FALSE
      [] x.k = "bool" -> x.v
      [] x.k = "num" -> x.v # <<"0">>
      [] x.k = "str" -> x.v # <<>>
      [] OTHER -> TRUE

\* x ?? d
Coalesce(x, d) == IF x.k \in {"undefined", "null"} THEN d ELSE x

\* x.key for a value x that is neither null nor undefined; the values of the
\* model carry no inherited property under the keys the handlers read
Prop(x, key) ==
    IF x.k = "obj" /\ key \in DOMAIN x.v THEN x.v[key] ELSE JUndefined

\* x?.key
OptProp(x, key) ==
    IF x.k \in {"undefined", "null"} THEN JUndefined ELSE Prop(x, key)

\* String(x)
RECURSIVE StringOf(_)
StringOf(x) ==
    CASE x.k = "undefined" ->
           <<"u", "n", "d", "e", "f", "i", "n", "e", "d">>
      [] x.k = "null" -> <<"n", "u", "l", "l">>
      [] x.k = "bool" ->
           IF x.v THEN <<"t", "r", "u", "e">> ELSE <<"f", "a", "l", "s", "e">>
      [] x.k = "num" -> x.v
      [] x.k = "str" -> x.v
      [] x.k = "arr" ->
           Join([i \in 1..Len(x.v) |->
                   IF x.v[i].k \in {"undefined", "null"} THEN <<>>
                   ELSE StringOf(x.v[i])], <<",">>)
      [] OTHER ->
           <<"[", "o", "b", "j", "e", "c", "t", " ",
             "O", "b", "j", "e", "c", "t", "]">>

(***************************************************************************)
(* JSON.parse over a sequence of lexemes.  A lexeme is [t, s]: t is the    *)
(* kind ("{", "}", "[", "]", ":", ",", "null", "true", "false", "num",     *)
(* "str", "ws", or "bad" for text that is no JSON lexeme) and s the text   *)
(* of a string or number.                                                  *)
(***************************************************************************)
Lx(t) == [t |-> t, s |-> <<>>]
LxStr(chars) == [t |-> "str", s |-> chars]
LxNum(digits) == [t |-> "num", s |-> digits]

ParseFail == [ok |-> FALSE, val |-> JUndefined, rest |-> <<>>]
ParseOk(val, rest) == [ok |-> TRUE, val |-> val, rest |-> rest]

RECURSIVE SkipWs(_)
SkipWs(toks) ==
    IF toks # <<>> /\ Head(toks).t = "ws" THEN SkipWs(Tail(toks)) ELSE toks

RECURSIVE ParseValue(_), ParseElements(_, _), ParseMembers(_, _)
ParseValue(toks0) ==
    LET toks == SkipWs(toks0) IN
    IF toks = <<>> THEN ParseFail
    ELSE LET h == Head(toks)
             r == Tail(toks)
             r2 == SkipWs(r)
         IN CASE h.t = "null" -> ParseOk(JNull, r)
              [] h.t = "true" -> ParseOk(JBool(TRUE), r)
              [] h.t = "false" -> ParseOk(JBool(FALSE), r)
              [] h.t = "num" -> ParseOk(JNum(h.s), r)
              [] h.t = "str" -> ParseOk(JStr(h.s), r)
              [] h.t = "[" ->
                   IF r2 # <<>> /\ Head(r2).t = "]"
                   THEN ParseOk(JArr(<<>>), Tail(r2))
                   ELSE ParseElements(r, <<>>)
              [] h.t = "{" ->
                   IF r2 # <<>> /\ Head(r2).t = "}"
                   THEN ParseOk(JObj(<<>>), Tail(r2))
                   ELSE ParseMembers(r, <<>>)
              [] OTHER -> ParseFail

ParseElements(toks, acc) ==
    LET pv == ParseValue(toks)
        r == SkipWs(pv.rest)
    IN IF ~pv.ok \/ r = <<>> THEN ParseFail
       ELSE IF Head(r).t = "," THEN ParseElements(Tail(r), Append(acc, pv.val))
       ELSE IF Head(r).t = "]" THEN ParseOk(JArr(Append(acc, pv.val)), Tail(r))
       ELSE ParseFail

\* a repeated key keeps its last value
ParseMembers(toks, acc) ==
    LET t1 == SkipWs(toks) IN
    IF t1 = <<>> \/ Head(t1).t # "str" THEN ParseFail
    ELSE LET key == Head(t1).s
             t2 == SkipWs(Tail(t1))
         IN IF t2 = <<>> \/ Head(t2).t # ":" THEN ParseFail
            ELSE LET pv == ParseValue(Tail(t2))
                     r == SkipWs(pv.rest)
                     acc2 == (key :> pv.val) @@ acc
                 IN IF ~pv.ok \/ r = <<>> THEN ParseFail
                    ELSE IF Head(r).t = "," THEN ParseMembers(Tail(r), acc2)
                    ELSE IF Head(r).t = "}" THEN ParseOk(JObj(acc2), Tail(r))
                    ELSE ParseFail

\* JSON.parse(text): ok = FALSE stands for the SyntaxError it throws
JSONparse(text) ==
    LET pv == ParseValue(text) IN
    IF pv.ok /\ SkipWs(pv.rest) = <<>> THEN pv ELSE ParseFail

(***************************************************************************)
(* new URL(input).pathname, for the URL shapes MassTransit addresses take: *)
(* a non-special scheme (rabbitmq:, amqp:, loopback:, ...), an optional    *)
(* //host[:port] authority, a path, an optional ?query or #fragment.       *)
(* Credentials, IPv6 hosts, percent-encoding and the special schemes       *)
(* (http, https, ws, wss, ftp, file) are outside the modelled alphabet.    *)
(* ok = FALSE stands for the TypeError the constructor throws.             *)
(***************************************************************************)
SchemeChars == Letters \cup Digits \cup {"+", "-", "."}

ForbiddenHostChars == {" ", "<", ">", "^", "|"}

RECURSIVE TrimLeft(_)
TrimLeft(s) == IF s # <<>> /\ Head(s) = " " THEN TrimLeft(Tail(s)) ELSE s

RECURSIVE TrimRight(_)
TrimRight(s) ==
    IF s # <<>> /\ s[Len(s)] = " " THEN TrimRight(SubSeq(s, 1, Len(s) - 1))
    ELSE s

\* removal of the "." and ".." segments of a path given as its segments
RECURSIVE NormalizeSegments(_, _)
NormalizeSegments(segs, acc) ==
    IF segs = <<>> THEN acc
    ELSE LET seg == Head(segs)
             last == Len(segs) = 1
         IN IF seg = <<".", ".">>
            THEN NormalizeSegments(Tail(segs),
                   (IF acc = <<>> THEN acc ELSE SubSeq(acc, 1, Len(acc) - 1))
                   \o (IF last THEN <<(<<>>)>> ELSE <<>>))
            ELSE IF seg = <<".">>
            THEN NormalizeSegments(Tail(segs),
                   acc \o (IF last THEN <<(<<>>)>> ELSE <<>>))
            ELSE NormalizeSegments(Tail(segs), Append(acc, seg))

\* the serialised path of a hierarchical URL: "" or "/seg/seg..."
HierPathname(path) ==
    IF path = <<>> THEN <<>>
    ELSE <<"/">> \o Join(NormalizeSegments(Tail(Split(path, "/")), <<>>), <<"/">>)

URLFail == [ok |-> FALSE, pathname |-> <<>>]

URLparse(input) ==
    LET s == TrimRight(TrimLeft(input))
        colon == IndexOfAny(s, {":"}, 1)
        validScheme == /\ 1 < colon
                       /\ colon <= Len(s)
                       /\ s[1] \in Letters
                       /\ \A i \in 2..(colon - 1) : s[i] \in SchemeChars
        rest == SubSeq(s, colon + 1, Len(s))
        body == SubSeq(rest, 1, IndexOfAny(rest, {"?", "#"}, 1) - 1)
        after == SubSeq(body, 3, Len(body))
        slash == IndexOfAny(after, {"/"}, 1)
        authority == SubSeq(after, 1, slash - 1)
        pcolon == IndexOfAny(authority, {":"}, 1)
        host == SubSeq(authority, 1, pcolon - 1)
        port == SubSeq(authority, pcolon + 1, Len(authority))
        validAuthority == /\ \A i \in 1..Len(host) : host[i] \notin ForbiddenHostChars
                          /\ \A i \in 1..Len(port) : port[i] \in Digits
    IN IF ~validScheme THEN URLFail
       ELSE IF StartsWith(body, <<"/", "/">>)
       THEN IF validAuthority
            THEN [ok |-> TRUE,
                  pathname |-> HierPathname(SubSeq(after, slash, Len(after)))]
            ELSE URLFail
       ELSE IF StartsWith(body, <<"/">>)
       THEN [ok |-> TRUE, pathname |-> HierPathname(body)]
       ELSE [ok |-> TRUE, pathname |-> body]

(***************************************************************************)
(* Envelope parsing (masstransit.ts).                                      *)
(***************************************************************************)
K_messageType == <<"m", "e", "s", "s", "a", "g", "e", "T", "y", "p", "e">>
K_messageId == <<"m", "e", "s", "s", "a", "g", "e", "I", "d">>
K_message == <<"m", "e", "s", "s", "a", "g", "e">>
K_destinationAddress == <<"d", "e", "s", "t", "i", "n", "a", "t", "i", "o", "n",
                          "A", "d", "d", "r", "e", "s", "s">>

\* variant of parseEnvelope that tests the presence of the three keys
parseEnvelopeMutPresence(payload) ==
    LET p == JSONparse(payload) IN
    IF ~p.ok THEN JNull
    ELSE IF /\ p.val.k = "obj"
            /\ {K_messageType, K_messageId, K_message} \cap DOMAIN p.val.v # {}
    THEN p.val
    ELSE JNull
\* parseEnvelope(payload): the parsed value, or JNull for `null`
parseEnvelope(payload) ==
    LET p == JSONparse(payload) IN
    IF ~p.ok THEN JNull
    ELSE IF /\ Truthy(p.val)
            /\ \/ Truthy(Prop(p.val, K_messageType))
               \/ Truthy(Prop(p.val, K_messageId))
               \/ Truthy(Prop(p.val, K_message))
    THEN p.val
    ELSE JNull

(***************************************************************************)
(* Messages held by the broker (types.ts, PeekedMessage).  An absent       *)
(* property is JUndefined.                                                 *)
(***************************************************************************)
DefaultContentType ==
    <<"a", "p", "p", "l", "i", "c", "a", "t", "i", "o", "n", "/", "v", "n", "d",
      ".", "m", "a", "s", "s", "t", "r", "a", "n", "s", "i", "t", "+", "j", "s",
      "o", "n">>

K_MT_Reason == <<"M", "T", "-", "R", "e", "a", "s", "o", "n">>

Message(payload, contentType, headers, messageId) ==
    [payload |-> payload,
     exchange |-> <<>>,
     routing_key |-> <<>>,
     properties |-> [content_type |-> contentType,
                     headers |-> headers,
                     message_id |-> messageId,
                     correlation_id |-> JUndefined]]

\* "r://h/v/x": the exchange x of vhost v on host h
AddrExchangeX == <<"r", ":", "/", "/", "h", "/", "v", "/", "x">>
\* "r://h": a URI whose path has no segment
AddrNoSegment == <<"r", ":", "/", "/", "h">>
\* "nourl": text that is no URI
AddrMalformed == <<"n", "o", "u", "r", "l">>

\* { "messageId":"1","destinationAddress":"r://h/v/x"} with a custom content
\* type, a fault header and a message id
MsgDest ==
    Message(<<Lx("{"), Lx("ws"), LxStr(K_messageId), Lx(":"), LxStr(<<"1">>),
              Lx(","), LxStr(K_destinationAddress), Lx(":"),
              LxStr(AddrExchangeX), Lx("}")>>,
            JStr(<<"j">>),
            JObj(K_MT_Reason :> JStr(<<"f">>)),
            JStr(<<"1">>))

\* {"messageId":"2"} with no property at all
MsgNoDest ==
    Message(<<Lx("{"), LxStr(K_messageId), Lx(":"), LxStr(<<"2">>), Lx("}")>>,
            JUndefined, JUndefined, JUndefined)

\* {"message":{},"destinationAddress":"nourl"}
MsgBadDest ==
    Message(<<Lx("{"), LxStr(K_message), Lx(":"), Lx("{"), Lx("}"), Lx(","),
              LxStr(K_destinationAddress), Lx(":"), LxStr(AddrMalformed),
              Lx("}")>>,
            JUndefined, JUndefined, JStr(<<"3">>))

\* a payload that is not JSON
MsgRaw == Message(<<Lx("bad")>>, JStr(<<"t">>), JUndefined, JUndefined)

\* {"messageId":"5","destinationAddress":"r://h"}
MsgNoSegment ==
    Message(<<Lx("{"), LxStr(K_messageId), Lx(":"), LxStr(<<"5">>), Lx(","),
              LxStr(K_destinationAddress), Lx(":"), LxStr(AddrNoSegment),
              Lx("}")>>,
            JUndefined, JUndefined, JUndefined)

\* "r://h:5/y/?d": a port, a trailing slash and a query
AddrExchangeY == <<"r", ":", "/", "/", "h", ":", "5", "/", "y", "/", "?", "d">>

\* {"message":{},"destinationAddress":"r://h:5/y/?d"}
MsgDestQuery ==
    Message(<<Lx("{"), LxStr(K_message), Lx(":"), Lx("{"), Lx("}"), Lx(","),
              LxStr(K_destinationAddress), Lx(":"), LxStr(AddrExchangeY),
              Lx("}")>>,
            JUndefined, JUndefined, JUndefined)

MsgPool == {MsgDest, MsgNoDest, MsgBadDest, MsgRaw, MsgNoSegment, MsgDestQuery}

\* "r://h/" and "r://h//": URIs whose path holds nothing but slashes
AddrSlash == AddrNoSegment \o <<"/">>
AddrSlashes == AddrNoSegment \o <<"/", "/">>

\* {"messageId":"6","destinationAddress":address}
MsgAddressed(address) ==
    Message(<<Lx("{"), LxStr(K_messageId), Lx(":"), LxStr(<<"6">>), Lx(","),
              LxStr(K_destinationAddress), Lx(":"), LxStr(address), Lx("}")>>,
            JUndefined, JUndefined, JUndefined)

\* the messages producers leave on the error queue in SpecAddress
AddressPool ==
    {MsgNoSegment, MsgAddressed(AddrSlash), MsgAddressed(AddrSlashes), MsgDest,
     MsgNoDest}

QOrdersError == <<"o">> \o ERROR_SUFFIX
QPlain == <<"q">>
QueueNames == {QOrdersError, QPlain}

(***************************************************************************)
(* Fault extraction (masstransit.ts).  A Fault is a record of JavaScript   *)
(* values with k = "fault"; JNull stands for `null`.                       *)
(***************************************************************************)
K_MT_Fault_ExceptionType ==
    <<"M", "T", "-", "F", "a", "u", "l", "t", "-", "E", "x", "c", "e", "p",
      "t", "i", "o", "n", "T", "y", "p", "e">>
K_MT_Fault_Message ==
    <<"M", "T", "-", "F", "a", "u", "l", "t", "-", "M", "e", "s", "s", "a",
      "g", "e">>
K_MT_Fault_Timestamp ==
    <<"M", "T", "-", "F", "a", "u", "l", "t", "-", "T", "i", "m", "e", "s",
      "t", "a", "m", "p">>
K_MT_Fault_ConsumerType ==
    <<"M", "T", "-", "F", "a", "u", "l", "t", "-", "C", "o", "n", "s", "u",
      "m", "e", "r", "T", "y", "p", "e">>
K_MT_Fault_InputAddress ==
    <<"M", "T", "-", "F", "a", "u", "l", "t", "-", "I", "n", "p", "u", "t",
      "A", "d", "d", "r", "e", "s", "s">>
K_MT_Fault_MessageType ==
    <<"M", "T", "-", "F", "a", "u", "l", "t", "-", "M", "e", "s", "s", "a",
      "g", "e", "T", "y", "p", "e">>
K_MT_Fault_RetryCount ==
    <<"M", "T", "-", "F", "a", "u", "l", "t", "-", "R", "e", "t", "r", "y",
      "C", "o", "u", "n", "t">>
K_MT_Fault_StackTrace ==
    <<"M", "T", "-", "F", "a", "u", "l", "t", "-", "S", "t", "a", "c", "k",
      "T", "r", "a", "c", "e">>
K_MT_Host_MachineName ==
    <<"M", "T", "-", "H", "o", "s", "t", "-", "M", "a", "c", "h", "i", "n",
      "e", "N", "a", "m", "e">>
K_MT_Host_ProcessName ==
    <<"M", "T", "-", "H", "o", "s", "t", "-", "P", "r", "o", "c", "e", "s",
      "s", "N", "a", "m", "e">>
K_MT_Host_ProcessId ==
    <<"M", "T", "-", "H", "o", "s", "t", "-", "P", "r", "o", "c", "e", "s",
      "s", "I", "d">>
K_MT_Host_Assembly ==
    <<"M", "T", "-", "H", "o", "s", "t", "-", "A", "s", "s", "e", "m", "b",
      "l", "y">>
K_MT_Host_AssemblyVersion ==
    <<"M", "T", "-", "H", "o", "s", "t", "-", "A", "s", "s", "e", "m", "b",
      "l", "y", "V", "e", "r", "s", "i", "o", "n">>
K_MT_Host_FrameworkVersion ==
    <<"M", "T", "-", "H", "o", "s", "t", "-", "F", "r", "a", "m", "e", "w",
      "o", "r", "k", "V", "e", "r", "s", "i", "o", "n">>
K_exceptions == <<"e", "x", "c", "e", "p", "t", "i", "o", "n", "s">>
K_exceptionType ==
    <<"e", "x", "c", "e", "p", "t", "i", "o", "n", "T", "y", "p", "e">>
K_stackTrace == <<"s", "t", "a", "c", "k", "T", "r", "a", "c", "e">>
K_faultId == <<"f", "a", "u", "l", "t", "I", "d">>
K_faultedMessageId ==
    <<"f", "a", "u", "l", "t", "e", "d", "M", "e", "s", "s", "a", "g", "e",
      "I", "d">>
K_timestamp == <<"t", "i", "m", "e", "s", "t", "a", "m", "p">>
K_sentTime == <<"s", "e", "n", "t", "T", "i", "m", "e">>
K_host == <<"h", "o", "s", "t">>
K_machineName == <<"m", "a", "c", "h", "i", "n", "e", "N", "a", "m", "e">>
K_processName == <<"p", "r", "o", "c", "e", "s", "s", "N", "a", "m", "e">>
K_processId == <<"p", "r", "o", "c", "e", "s", "s", "I", "d">>
K_assembly == <<"a", "s", "s", "e", "m", "b", "l", "y">>
K_assemblyVersion ==
    <<"a", "s", "s", "e", "m", "b", "l", "y", "V", "e", "r", "s", "i", "o",
      "n">>
K_frameworkVersion ==
    <<"f", "r", "a", "m", "e", "w", "o", "r", "k", "V", "e", "r", "s", "i",
      "o", "n">>
UrnPrefix == <<"u", "r", "n", ":", "m", "e", "s", "s", "a", "g", "e", ":">>
T_unknown == <<"u", "n", "k", "n", "o", "w", "n">>
T_fault == <<"f", "a", "u", "l", "t">>
T_truncated ==
    <<"\n", " ", " ", " ", " ", ".", ".", ".", " ", "(", "t", "r", "u", "n", "c", "a",
      "t", "e", "d", ")">>

\* headers[key]
Header(headers, key) == Prop(headers, key)

\* variant of parseFaultFromHeaders that tests the presence of the two keys
parseFaultFromHeadersMutPresence(headers) ==
    LET reason == Header(headers, K_MT_Reason)
        exceptionType == Header(headers, K_MT_Fault_ExceptionType)
    IN IF reason.k = "undefined" /\ exceptionType.k = "undefined" THEN JNull
       ELSE [k |-> "fault", origin |-> "headers",
             faultedMessageId |-> JUndefined,
             timestamp |-> Header(headers, K_MT_Fault_Timestamp),
             consumerType |-> Header(headers, K_MT_Fault_ConsumerType),
             inputAddress |-> Header(headers, K_MT_Fault_InputAddress),
             messageType |-> Header(headers, K_MT_Fault_MessageType),
             retryCount |-> Header(headers, K_MT_Fault_RetryCount),
             reason |-> reason,
             exceptions |->
                 IF Truthy(exceptionType)
                 THEN JArr(<<JObj((K_exceptionType :> exceptionType)
                              @@ (K_message :> Header(headers, K_MT_Fault_Message))
                              @@ (K_stackTrace :>
                                    Header(headers, K_MT_Fault_StackTrace)))>>)
                 ELSE JUndefined,
             host |-> JObj((K_machineName :> Header(headers, K_MT_Host_MachineName))
                        @@ (K_processName :> Header(headers, K_MT_Host_ProcessName))
                        @@ (K_processId :> Header(headers, K_MT_Host_ProcessId))
                        @@ (K_assembly :> Header(headers, K_MT_Host_Assembly))
                        @@ (K_assemblyVersion :>
                              Header(headers, K_MT_Host_AssemblyVersion))
                        @@ (K_frameworkVersion :>
                              Header(headers, K_MT_Host_FrameworkVersion)))]
\* parseFaultFromHeaders(headers): `if (!reason && !exceptionType) return null`.
\* The massTransitVersion and operatingSystemVersion of the host are read by
\* no caller and are left out.
parseFaultFromHeaders(headers) ==
    LET reason == Header(headers, K_MT_Reason)
        exceptionType == Header(headers, K_MT_Fault_ExceptionType)
    IN IF ~Truthy(reason) /\ ~Truthy(exceptionType) THEN JNull
       ELSE [k |-> "fault", origin |-> "headers",
             faultedMessageId |-> JUndefined,
             timestamp |-> Header(headers, K_MT_Fault_Timestamp),
             consumerType |-> Header(headers, K_MT_Fault_ConsumerType),
             inputAddress |-> Header(headers, K_MT_Fault_InputAddress),
             messageType |-> Header(headers, K_MT_Fault_MessageType),
             retryCount |-> Header(headers, K_MT_Fault_RetryCount),
             reason |-> reason,
             exceptions |->
                 IF Truthy(exceptionType)
                 THEN JArr(<<JObj((K_exceptionType :> exceptionType)
                              @@ (K_message :> Header(headers, K_MT_Fault_Message))
                              @@ (K_stackTrace :>
                                    Header(headers, K_MT_Fault_StackTrace)))>>)
                 ELSE JUndefined,
             host |-> JObj((K_machineName :> Header(headers, K_MT_Host_MachineName))
                        @@ (K_processName :> Header(headers, K_MT_Host_ProcessName))
                        @@ (K_processId :> Header(headers, K_MT_Host_ProcessId))
                        @@ (K_assembly :> Header(headers, K_MT_Host_Assembly))
                        @@ (K_assemblyVersion :>
                              Header(headers, K_MT_Host_AssemblyVersion))
                        @@ (K_frameworkVersion :>
                              Header(headers, K_MT_Host_FrameworkVersion)))]

\* variant of FaultOfMessage that takes an empty exceptions array for a fault
FaultOfMessageMutEmpty(envelope, msg, exceptions) ==
    IF ~Truthy(msg) THEN JNull
    ELSE IF /\ Truthy(exceptions)
            /\ exceptions.k = "arr"
    THEN [k |-> "fault", origin |-> "body",
          faultId |-> Prop(msg, K_faultId),
          faultedMessageId |-> Prop(msg, K_faultedMessageId),
          timestamp |-> Coalesce(Prop(envelope, K_sentTime),
                                 Prop(msg, K_timestamp)),
          exceptions |-> exceptions,
          message |-> Prop(msg, K_message),
          host |-> Prop(envelope, K_host)]
    ELSE JNull
\* the fault parseFault reads from the message of a parsed envelope
FaultOfMessage(envelope, msg, exceptions) ==
    IF ~Truthy(msg) THEN JNull
    ELSE IF /\ Truthy(exceptions)
            /\ exceptions.k = "arr"
            /\ Len(exceptions.v) > 0
    THEN [k |-> "fault", origin |-> "body",
          faultId |-> Prop(msg, K_faultId),
          faultedMessageId |-> Prop(msg, K_faultedMessageId),
          timestamp |-> Coalesce(Prop(envelope, K_sentTime),
                                 Prop(msg, K_timestamp)),
          exceptions |-> exceptions,
          message |-> Prop(msg, K_message),
          host |-> Prop(envelope, K_host)]
    ELSE JNull

\* the body of parseFault's try for the outcome p of JSON.parse
FaultOfParsed(p) ==
    IF ~p.ok THEN JNull
    ELSE IF p.val.k = "null" THEN JNull
    ELSE FaultOfMessage(p.val, Prop(p.val, K_message),
                        Prop(Prop(p.val, K_message), K_exceptions))

\* parseFault(payload): a TypeError or SyntaxError inside the try gives null
parseFault(payload) == FaultOfParsed(JSONparse(payload))

(***************************************************************************)
(* Fault formatting (masstransit.ts).  A report is the sequence of its     *)
(* lines; a line is [label, text]: the literal the line starts with and    *)
(* the text the template puts after it.  ok = FALSE stands for a TypeError *)
(* thrown while formatting.                                                *)
(***************************************************************************)
\* stackTrace.split("\n").slice(0, 8)
StackLimit == 8
\* payloadStr.length > 500, slice(0, 500)
PayloadLimit == 500

\* variant of getMessageTypeName that leaves the colons of the type name
getMessageTypeNameMutColons(urn) ==
    IF ~StartsWith(urn, UrnPrefix) THEN urn
    ELSE SubSeq(urn, Len(UrnPrefix) + 1, Len(urn))
\* getMessageTypeName(urn) for a string urn
getMessageTypeName(urn) ==
    IF ~StartsWith(urn, UrnPrefix) THEN urn
    ELSE LET rest == SubSeq(urn, Len(UrnPrefix) + 1, Len(urn))
         IN [i \in 1..Len(rest) |-> IF rest[i] = ":" THEN "." ELSE rest[i]]

\* variant of MapTypeNames that decodes the first element only
MapTypeNamesMutFirst(messageType) ==
    IF messageType.k # "arr" THEN [ok |-> FALSE, names |-> <<>>]
    ELSE IF \E i \in 1..Len(messageType.v) : messageType.v[i].k # "str"
    THEN [ok |-> FALSE, names |-> <<>>]
    ELSE [ok |-> TRUE,
          names |-> [i \in 1..Min(1, Len(messageType.v)) |->
                       getMessageTypeName(messageType.v[i].v)]]
\* messageType.map(getMessageTypeName): a TypeError when messageType has no
\* map method (it is no array) or an element has no startsWith method (it is
\* no string)
MapTypeNames(messageType) ==
    IF messageType.k # "arr" THEN [ok |-> FALSE, names |-> <<>>]
    ELSE IF \E i \in 1..Len(messageType.v) : messageType.v[i].k # "str"
    THEN [ok |-> FALSE, names |-> <<>>]
    ELSE [ok |-> TRUE,
          names |-> [i \in 1..Len(messageType.v) |->
                       getMessageTypeName(messageType.v[i].v)]]

\* the decimal digits of a natural number
RECURSIVE DigitsOf(_)
DigitsOf(n) ==
    LET d == <<"0", "1", "2", "3", "4", "5", "6", "7", "8", "9">>[(n % 10) + 1]
    IN IF n < 10 THEN <<d>> ELSE DigitsOf(n \div 10) \o <<d>>

WhiteSpace == {" ", "\t", "\r", "\n"}

\* String.prototype.trim
RECURSIVE Trim(_)
Trim(s) ==
    IF s = <<>> THEN s
    ELSE IF Head(s) \in WhiteSpace THEN Trim(Tail(s))
    ELSE IF s[Len(s)] \in WhiteSpace THEN Trim(SubSeq(s, 1, Len(s) - 1))
    ELSE s

\* s.slice(0, n)
Slice0(s, n) == SubSeq(s, 1, Min(n, Len(s)))

Spaces(n) == [i \in 1..n |-> " "]

\* the keys of an object, in the order the model writes them
RECURSIVE KeysOf(_)
KeysOf(keys) ==
    IF keys = {} THEN <<>>
    ELSE LET key == CHOOSE x \in keys : TRUE
         IN <<key>> \o KeysOf(keys \ {key})

\* JSON.stringify(x, null, 2) for a value x that JSON.parse returned, at the
\* given indentation.  Strings of the model need no escape.
RECURSIVE Stringify(_, _)
Stringify(x, indent) ==
    CASE x.k = "null" -> <<"n", "u", "l", "l">>
      [] x.k = "bool" -> StringOf(x)
      [] x.k = "num" -> x.v
      [] x.k = "str" -> <<"\"">> \o x.v \o <<"\"">>
      [] x.k = "arr" ->
           IF Len(x.v) = 0 THEN <<"[", "]">>
           ELSE <<"[", "\n">>
                \o Join([i \in 1..Len(x.v) |->
                           Spaces(indent + 2) \o Stringify(x.v[i], indent + 2)],
                        <<",", "\n">>)
                \o <<"\n">> \o Spaces(indent) \o <<"]">>
      [] OTHER ->
           LET keys == KeysOf(DOMAIN x.v) IN
           IF Len(keys) = 0 THEN <<"{", "}">>
           ELSE <<"{", "\n">>
                \o Join([i \in 1..Len(keys) |->
                           Spaces(indent + 2) \o <<"\"">> \o keys[i]
                           \o <<"\"", ":", " ">>
                           \o Stringify(x.v[keys[i]], indent + 2)],
                        <<",", "\n">>)
                \o <<"\n">> \o Spaces(indent) \o <<"}">>

JSONstringify(x) == Stringify(x, 0)

\* the text of a payload given as lexemes
LexemeText(lx) ==
    CASE lx.t = "str" -> <<"\"">> \o lx.s \o <<"\"">>
      [] lx.t = "num" -> lx.s
      [] lx.t = "ws" -> <<" ">>
      [] lx.t = "null" -> <<"n", "u", "l", "l">>
      [] lx.t = "true" -> <<"t", "r", "u", "e">>
      [] lx.t = "false" -> <<"f", "a", "l", "s", "e">>
      [] lx.t = "bad" -> <<"<", "x", ">">>
      [] OTHER -> <<lx.t>>

PayloadText(payload) == Join([i \in 1..Len(payload) |-> LexemeText(payload[i])], <<>>)

Line(label, text) == [label |-> label, text |-> text]

Report(shape, lines) == [ok |-> TRUE, shape |-> shape, lines |-> lines]

FormatThrows == [ok |-> FALSE, shape |-> "none", lines |-> <<>>]

\* `${x ?? d}`
TextOr(x, d) == StringOf(Coalesce(x, JStr(d)))

\* `${host.machineName ?? "unknown"} / ${host.processName ?? "unknown"} (PID
\* ${host.processId ?? "?"})`, or "unknown" for a falsy host
HostInfo(host) ==
    IF Truthy(host)
    THEN TextOr(Prop(host, K_machineName), T_unknown) \o <<" ", "/", " ">>
         \o TextOr(Prop(host, K_processName), T_unknown)
         \o <<" ", "(", "P", "I", "D", " ">>
         \o TextOr(Prop(host, K_processId), <<"?">>) \o <<")">>
    ELSE T_unknown

\* variant of StackTraceLine that shows every line of the stack trace
StackTraceLineMutAll(stackTrace) ==
    LET stackLines == Split(stackTrace, "\n") IN
    Line("Stack Trace",
         <<"\n">> \o Join([i \in 1..Len(stackLines) |->
                            Spaces(4) \o Trim(stackLines[i])], <<"\n">>))
\* the Stack Trace line for a string stackTrace: at most 8 lines, each
\* trimmed and indented by four spaces
StackTraceLine(stackTrace) ==
    LET stackLines == Slice0(Split(stackTrace, "\n"), StackLimit) IN
    Line("Stack Trace",
         <<"\n">> \o Join([i \in 1..Len(stackLines) |->
                            Spaces(4) \o Trim(stackLines[i])], <<"\n">>))

\* variant of Truncated that also cuts a text of exactly 500 characters
TruncatedMutAt(payloadStr) ==
    IF Len(payloadStr) >= PayloadLimit
    THEN Slice0(payloadStr, PayloadLimit) \o T_truncated
    ELSE payloadStr
\* payloadStr.length > 500 ? payloadStr.slice(0, 500) + "\n    ... (truncated)"
\*                         : payloadStr
Truncated(payloadStr) ==
    IF Len(payloadStr) > PayloadLimit
    THEN Slice0(payloadStr, PayloadLimit) \o T_truncated
    ELSE payloadStr

\* x?.[0]
First(x) == IF x.k = "arr" /\ Len(x.v) > 0 THEN x.v[1] ELSE JUndefined

\* `Message ${index + 1}:`
MessageLine(index) == Line("Message", DigitsOf(index + 1))

\* the branch of formatFaultMessage taken for a fault found in the headers
HeaderFaultReport(headerFault, envelope, index) ==
    LET ex == First(headerFault.exceptions)
        fromEnvelope == headerFault.messageType.k \in {"undefined", "null"}
        envelopeTypes == OptProp(envelope, K_messageType)
        types == MapTypeNames(envelopeTypes)
        messageType ==
            IF ~fromEnvelope THEN StringOf(headerFault.messageType)
            ELSE IF Truthy(envelopeTypes) THEN Join(types.names, <<",", " ">>)
            ELSE T_unknown
        host == headerFault.host
        stackTrace == OptProp(ex, K_stackTrace)
        l1 == <<MessageLine(index),
                Line("Faulted", TextOr(headerFault.timestamp, T_unknown)),
                Line("Reason", TextOr(headerFault.reason, T_fault)),
                Line("Message Type", messageType)>>
        l2 == l1 \o (IF Truthy(headerFault.consumerType)
                    THEN <<Line("Consumer", StringOf(headerFault.consumerType))>>
                    ELSE <<>>)
        l3 == l2 \o (IF Truthy(ex)
                    THEN <<Line("Exception",
                                   TextOr(Prop(ex, K_exceptionType), T_unknown)
                                   \o <<" ", "-", " ", "\"">>
                                   \o TextOr(Prop(ex, K_message), T_unknown)
                                   \o <<"\"">>)>>
                    ELSE <<>>)
        l4 == l3 \o (IF headerFault.retryCount.k # "undefined"
                    THEN <<Line("Retry Count", StringOf(headerFault.retryCount))>>
                    ELSE <<>>)
        l5 == l4 \o (IF Truthy(stackTrace)
                    THEN <<StackTraceLine(stackTrace.v)>>
                    ELSE <<>>)
        l6 == l5 \o (IF Truthy(OptProp(envelope, K_message))
                    THEN <<Line("Original Payload",
                                   Truncated(JSONstringify(Prop(envelope, K_message))))>>
                    ELSE <<>>)
        l7 == Append(l6, Line("Source Host", HostInfo(host)))
        l8 == l7 \o (IF Truthy(Prop(host, K_assembly)) /\ Truthy(Prop(host, K_assemblyVersion))
                    THEN <<Line("Assembly",
                                   StringOf(Prop(host, K_assembly)) \o <<" ", "v">>
                                   \o StringOf(Prop(host, K_assemblyVersion))
                                   \o <<" ", "(", ".", "N", "E", "T", " ">>
                                   \o TextOr(Prop(host, K_frameworkVersion), <<"?">>)
                                   \o <<")">>)>>
                    ELSE <<>>)
    IN IF fromEnvelope /\ Truthy(envelopeTypes) /\ ~types.ok THEN FormatThrows
       ELSE IF Truthy(stackTrace) /\ stackTrace.k # "str" THEN FormatThrows
       ELSE Report("header", l8)

\* messageTypes.length > 0 ? messageTypes.join(", ") : "unknown"
TypeNamesText(names) == IF Len(names) > 0 THEN Join(names, <<",", " ">>) ELSE T_unknown

\* the branch taken for a fault found in the body
BodyFaultReport(bodyFault, envelope, index) ==
    LET ex == First(bodyFault.exceptions)
        envelopeTypes == OptProp(envelope, K_messageType)
        types == IF Truthy(envelopeTypes) THEN MapTypeNames(envelopeTypes)
                 ELSE [ok |-> TRUE, names |-> <<>>]
        host == bodyFault.host
        stackTrace == OptProp(ex, K_stackTrace)
        l1 == <<MessageLine(index),
                Line("Faulted", TextOr(bodyFault.timestamp, T_unknown)),
                Line("Original MessageId",
                     TextOr(bodyFault.faultedMessageId, T_unknown)),
                Line("Message Type", TypeNamesText(types.names)),
                Line("Exception",
                     TextOr(OptProp(ex, K_exceptionType), T_unknown)
                     \o <<" ", "-", " ", "\"">>
                     \o TextOr(OptProp(ex, K_message), T_unknown)
                     \o <<"\"">>)>>
        l2 == l1 \o (IF Truthy(stackTrace)
                    THEN <<StackTraceLine(stackTrace.v)>>
                    ELSE <<>>)
        l3 == l2 \o (IF Truthy(bodyFault.message)
                    THEN <<Line("Original Payload",
                                   Truncated(JSONstringify(bodyFault.message)))>>
                    ELSE <<>>)
    IN IF ~types.ok THEN FormatThrows
       ELSE IF Truthy(stackTrace) /\ stackTrace.k # "str" THEN FormatThrows
       ELSE Report("body", Append(l3, Line("Source Host", HostInfo(host))))

\* the branch taken for an envelope that carries no fault
EnvelopeReport(envelope, index) ==
    LET envelopeTypes == Prop(envelope, K_messageType)
        types == IF Truthy(envelopeTypes) THEN MapTypeNames(envelopeTypes)
                 ELSE [ok |-> TRUE, names |-> <<>>]
    IN IF ~types.ok THEN FormatThrows
       ELSE Report("envelope",
                   <<MessageLine(index),
                     Line("MessageId", TextOr(Prop(envelope, K_messageId), T_unknown)),
                     Line("Sent", TextOr(Prop(envelope, K_sentTime), T_unknown)),
                     Line("Message Type", TypeNamesText(types.names)),
                     Line("Payload",
                          Slice0(JSONstringify(Coalesce(Prop(envelope, K_message),
                                                        JObj(<<>>))),
                                 PayloadLimit))>>)

\* the branch taken for a payload that is no envelope
RawReport(msg, index) ==
    Report("raw", <<MessageLine(index),
                    Line("Exchange", msg.exchange),
                    Line("Routing Key", msg.routing_key),
                    Line("Payload", Slice0(PayloadText(msg.payload), PayloadLimit))>>)

\* variant of the branch choice that tries the body before the headers
FormatParsedMutBodyFirst(msg, index, headerFault, bodyFault, envelope) ==
    IF bodyFault.k = "fault" THEN BodyFaultReport(bodyFault, envelope, index)
    ELSE IF headerFault.k = "fault"
    THEN HeaderFaultReport(headerFault, envelope, index)
    ELSE IF Truthy(envelope) THEN EnvelopeReport(envelope, index)
    ELSE RawReport(msg, index)
\* the branch formatFaultMessage takes once headers and payload are parsed:
\* header fault, else body fault, else envelope, else raw
FormatParsed(msg, index, headerFault, bodyFault, envelope) ==
    IF headerFault.k = "fault"
    THEN HeaderFaultReport(headerFault, envelope, index)
    ELSE IF bodyFault.k = "fault" THEN BodyFaultReport(bodyFault, envelope, index)
    ELSE IF Truthy(envelope) THEN EnvelopeReport(envelope, index)
    ELSE RawReport(msg, index)

\* formatFaultMessage(msg, index)
formatFaultMessage(msg, index) ==
    FormatParsed(msg, index,
                 parseFaultFromHeaders(Coalesce(msg.properties.headers, JObj(<<>>))),
                 parseFault(msg.payload),
                 parseEnvelope(msg.payload))

\* the outcome of a formatting loop that produced the given reports
Collected(reports) ==
    [ok |-> \A i \in 1..Len(reports) : reports[i].ok, reports |-> reports]

\* the loop `lines.push(formatFaultMessage(messages[i], i))` of peek_errors
\* and of the preview: the reports, or ok = FALSE when one of them throws
FormatAll(messages) ==
    Collected([i \in 1..Len(messages) |-> formatFaultMessage(messages[i], i - 1)])

(***************************************************************************)
(* Messages of an error queue: headers and payloads of every kind the      *)
(* formatter tells apart.                                                  *)
(***************************************************************************)
UrnAB == UrnPrefix \o <<"A", ":", "B">>
\* "urn:message:urn:message:A"
UrnTwice == UrnPrefix \o UrnPrefix \o <<"A">>
\* a type name that is no URN
NameBC == <<"B", ":", "C">>

HdrNone == JUndefined
HdrReason == JObj(K_MT_Reason :> JStr(T_fault))
\* the key MT-Reason with an empty value
HdrEmptyReason == JObj(K_MT_Reason :> JStr(<<>>))
\* an exception with a stack trace of two lines, " a" and "b "
HdrException ==
    JObj((K_MT_Fault_ExceptionType :> JStr(<<"E">>))
         @@ (K_MT_Fault_Message :> JStr(<<"m">>))
         @@ (K_MT_Fault_StackTrace :> JStr(<<" ", "a", "\n", "b", " ">>))
         @@ (K_MT_Fault_RetryCount :> JNum(<<"3">>)))
HdrReasonType ==
    JObj((K_MT_Reason :> JStr(T_fault)) @@ (K_MT_Fault_MessageType :> JStr(<<"T">>)))
\* a stack trace that is a number
HdrNumericStack ==
    JObj((K_MT_Fault_ExceptionType :> JStr(<<"E">>))
         @@ (K_MT_Fault_StackTrace :> JNum(<<"5">>)))
\* a fault header other than the two that mark a fault
HdrMessageOnly == JObj(K_MT_Fault_Message :> JStr(<<"m">>))

\* <x>
PayNotJson == <<Lx("bad")>>
\* {"messageType":["urn:message:A:B"],"message":{"i":1}}
PayEnvelope ==
    <<Lx("{"), LxStr(K_messageType), Lx(":"), Lx("["), LxStr(UrnAB), Lx("]"),
      Lx(","), LxStr(K_message), Lx(":"), Lx("{"), LxStr(<<"i">>), Lx(":"),
      LxNum(<<"1">>), Lx("}"), Lx("}")>>
\* {"messageType":["urn:message:A:B"],"sentTime":"S","host":{"machineName":"H"},
\*  "message":{"exceptions":[{"exceptionType":"X"}],"faultedMessageId":"9"}}
PayBodyFault ==
    <<Lx("{"), LxStr(K_messageType), Lx(":"), Lx("["), LxStr(UrnAB), Lx("]"),
      Lx(","), LxStr(K_sentTime), Lx(":"), LxStr(<<"S">>),
      Lx(","), LxStr(K_host), Lx(":"), Lx("{"), LxStr(K_machineName), Lx(":"),
      LxStr(<<"H">>), Lx("}"),
      Lx(","), LxStr(K_message), Lx(":"), Lx("{"),
      LxStr(K_exceptions), Lx(":"), Lx("["), Lx("{"), LxStr(K_exceptionType),
      Lx(":"), LxStr(<<"X">>), Lx("}"), Lx("]"),
      Lx(","), LxStr(K_faultedMessageId), Lx(":"), LxStr(<<"9">>),
      Lx("}"), Lx("}")>>
\* {"messageType":"T"}
PayTypeNotArray ==
    <<Lx("{"), LxStr(K_messageType), Lx(":"), LxStr(<<"T">>), Lx("}")>>
\* {"messageId":""}
PayEmptyId == <<Lx("{"), LxStr(K_messageId), Lx(":"), LxStr(<<>>), Lx("}")>>
\* {"a":1}
PayOtherJson == <<Lx("{"), LxStr(<<"a">>), Lx(":"), LxNum(<<"1">>), Lx("}")>>
\* null
PayNull == <<Lx("null")>>
\* {"message":{"exceptions":[]}}
PayNoExceptions ==
    <<Lx("{"), LxStr(K_message), Lx(":"), Lx("{"), LxStr(K_exceptions), Lx(":"),
      Lx("["), Lx("]"), Lx("}"), Lx("}")>>
\* {"messageType":["urn:message:urn:message:A","B:C"]}
PayTypeNames ==
    <<Lx("{"), LxStr(K_messageType), Lx(":"), Lx("["), LxStr(UrnTwice), Lx(","),
      LxStr(NameBC), Lx("]"), Lx("}")>>
\* {"message":{"exceptions":[{"stackTrace":7}]}}
PayNumericStack ==
    <<Lx("{"), LxStr(K_message), Lx(":"), Lx("{"), LxStr(K_exceptions), Lx(":"),
      Lx("["), Lx("{"), LxStr(K_stackTrace), Lx(":"), LxNum(<<"7">>), Lx("}"),
      Lx("]"), Lx("}"), Lx("}")>>

\* {"message":{"exceptions":"e"}}
PayExceptionsNotArray ==
    <<Lx("{"), LxStr(K_message), Lx(":"), Lx("{"), LxStr(K_exceptions), Lx(":"),
      LxStr(<<"e">>), Lx("}"), Lx("}")>>
\* {"message":{"exceptions":[{"exceptionType":"X"}],"message":{"i":1}}}
PayBodyFaultMessage ==
    <<Lx("{"), LxStr(K_message), Lx(":"), Lx("{"),
      LxStr(K_exceptions), Lx(":"), Lx("["), Lx("{"), LxStr(K_exceptionType),
      Lx(":"), LxStr(<<"X">>), Lx("}"), Lx("]"),
      Lx(","), LxStr(K_message), Lx(":"), Lx("{"), LxStr(<<"i">>), Lx(":"),
      LxNum(<<"1">>), Lx("}"),
      Lx("}"), Lx("}")>>

FaultMessage(headers, payload) == Message(payload, JUndefined, headers, JUndefined)

\* the messages producers leave on the error queue in SpecFormat
FormatPool ==
    {FaultMessage(HdrReason, PayBodyFault),
     FaultMessage(HdrNone, PayBodyFault),
     FaultMessage(HdrNone, PayEnvelope),
     FaultMessage(HdrNone, PayNotJson),
     FaultMessage(HdrEmptyReason, PayEnvelope),
     FaultMessage(HdrException, PayEnvelope),
     FaultMessage(HdrReasonType, PayTypeNotArray),
     FaultMessage(HdrReason, PayTypeNotArray),
     FaultMessage(HdrNone, PayTypeNotArray),
     FaultMessage(HdrNone, PayEmptyId),
     FaultMessage(HdrNone, PayOtherJson),
     FaultMessage(HdrNone, PayNull),
     FaultMessage(HdrNumericStack, PayEnvelope),
     FaultMessage(HdrNone, PayTypeNames),
     FaultMessage(HdrMessageOnly, PayNoExceptions),
     FaultMessage(HdrNone, PayNumericStack),
     FaultMessage(HdrNone, PayExceptionsNotArray),
     FaultMessage(HdrNone, PayBodyFaultMessage),
     FaultMessage(HdrReason, PayTypeNames),
     FaultMessage(HdrReason, PayOtherJson)}

\* a stack trace of n lines, the i-th being " i\t"
StackOf(n) == Join([i \in 1..n |-> <<" ">> \o DigitsOf(i) \o <<"\t">>], <<"\n">>)

\* a text of n characters
TextOfLength(n) == [i \in 1..n |-> "a"]

\* headers of a fault whose exception has a stack trace of n lines
HdrStack(n) ==
    JObj((K_MT_Fault_ExceptionType :> JStr(<<"E">>))
         @@ (K_MT_Fault_StackTrace :> JStr(StackOf(n))))

\* {"message":"a...a"}: an envelope whose message is a text of n characters
PayMessage(n) ==
    <<Lx("{"), LxStr(K_message), Lx(":"), LxStr(TextOfLength(n)), Lx("}")>>

\* {"message":{"exceptions":[{"stackTrace":"..."}],"message":"a...a"}}: a
\* body fault with a stack trace of lines lines and an original payload of n
\* characters
PayBodyStack(lines, n) ==
    <<Lx("{"), LxStr(K_message), Lx(":"), Lx("{"),
      LxStr(K_exceptions), Lx(":"), Lx("["), Lx("{"), LxStr(K_stackTrace),
      Lx(":"), LxStr(StackOf(lines)), Lx("}"), Lx("]"),
      Lx(","), LxStr(K_message), Lx(":"), LxStr(TextOfLength(n)),
      Lx("}"), Lx("}")>>

\* the messages producers leave on the error queue in SpecLimits: stack
\* traces of 2, 8 and 9 lines, and original payloads whose pretty-printed
\* text (the characters and the two quotes) has 12, 500 and 501 characters
LimitPool ==
    {FaultMessage(HdrStack(StackLimit + 1), PayMessage(PayloadLimit - 2)),
     FaultMessage(HdrStack(StackLimit), PayMessage(PayloadLimit - 1)),
     FaultMessage(HdrNone, PayBodyStack(StackLimit + 1, PayloadLimit - 2)),
     FaultMessage(HdrNone, PayBodyStack(2, PayloadLimit - 1)),
     FaultMessage(HdrException, PayEnvelope)}

(***************************************************************************)
(* The management API as the client uses it (rabbitmq-client.ts).          *)
(***************************************************************************)
\* POST /queues/{vhost}/{queue}/get: the first `count` messages are returned;
\* they stay in the queue under ack_requeue_true and leave it otherwise
BrokerGet(q, count, ackmode) ==
    LET n == Min(count, Len(q)) IN
    [messages |-> SubSeq(q, 1, n),
     remaining |-> IF ackmode = "ack_requeue_true" THEN q
                   ELSE SubSeq(q, n + 1, Len(q))]

\* variant of peekMessages that acknowledges what it reads
peekMessagesMutAck(count) == [count |-> count, ackmode |-> "ack_requeue_false"]
\* the request body of client.peekMessages(queue, count, vhost)
peekMessages(count) == [count |-> count, ackmode |-> "ack_requeue_true"]

\* variant of consumeMessages that asks for one message more
consumeMessagesMutMore(count) == [count |-> count + 1, ackmode |-> "ack_requeue_false"]
\* variant of consumeMessages that always asks for one message
consumeMessagesMutOne(count) == [count |-> 1, ackmode |-> "ack_requeue_false"]
\* variant of consumeMessages that requeues what it reads
consumeMessagesMutRequeue(count) == [count |-> count, ackmode |-> "ack_requeue_true"]
\* the request body of client.consumeMessages(queue, count, vhost)
consumeMessages(count) == [count |-> count, ackmode |-> "ack_requeue_false"]

\* {...a, ...b} on objects given as functions from keys to values
Spread(a, b) == [key \in (DOMAIN a) \cup (DOMAIN b) |->
                   IF key \in DOMAIN b THEN b[key] ELSE a[key]]

\* JSON.stringify of an object drops the keys whose value is undefined
DropUndefined(o) == [key \in {x \in DOMAIN o : o[x] # JUndefined} |-> o[key]]

\* o[key] on such an object
Field(o, key) == IF key \in DOMAIN o THEN o[key] ELSE JUndefined

\* variant of publishMessage whose defaults override the caller's properties
publishMessageMutDefault(exchange, routingKey, payload, properties) ==
    [exchange |-> exchange,
     routing_key |-> routingKey,
     payload |-> payload,
     properties |->
        DropUndefined(Spread(properties,
                             [delivery_mode |-> JNum(<<"2">>),
                              content_type |-> JStr(DefaultContentType)]))]
\* the request of client.publishMessage(exchange, routingKey, payload, properties)
publishMessage(exchange, routingKey, payload, properties) ==
    [exchange |-> exchange,
     routing_key |-> routingKey,
     payload |-> payload,
     properties |->
        DropUndefined(Spread([delivery_mode |-> JNum(<<"2">>),
                              content_type |-> JStr(DefaultContentType)],
                             properties))]

(***************************************************************************)
(* Configuration and tool registration (index.ts and tools/*.ts).          *)
(***************************************************************************)
EnvTrue == JStr(<<"t", "r", "u", "e">>)

\* the values of ALLOW_MUTATIVE_TOOLS: "true", "1", unset
EnvValues == {EnvTrue, JStr(<<"1">>), JUndefined}

\* getConfig().allowMutativeTools
allowMutativeTools(env, flag) == env = EnvTrue \/ flag

\* tools/overview.ts
OverviewTools == {"get_overview"}

\* variant of registerQueueTools without the allowMutative gate
registerQueueToolsMutUngated(allowMutative) ==
    {"list_queues", "get_queue", "purge_queue", "delete_queue"}
\* tools/queues.ts
registerQueueTools(allowMutative) ==
    {"list_queues", "get_queue"}
      \cup (IF allowMutative THEN {"purge_queue", "delete_queue"} ELSE {})

registerExchangeTools == {"list_exchanges", "get_exchange", "list_bindings"}

registerMessageTools(allowMutative) ==
    {"peek_messages"}
      \cup (IF allowMutative THEN {"publish_message", "move_messages"} ELSE {})

registerConnectionTools == {"list_connections", "list_consumers"}

registerMassTransitTools(allowMutative) ==
    {"list_error_queues", "list_skipped_queues", "peek_errors", "get_queue_health"}
      \cup (IF allowMutative THEN {"republish_from_error"} ELSE {})

\* main(): the tools registered on the server
RegisteredTools(allowMutative) ==
    OverviewTools
      \cup registerQueueTools(allowMutative)
      \cup registerExchangeTools
      \cup registerMessageTools(allowMutative)
      \cup registerConnectionTools
      \cup registerMassTransitTools(allowMutative)

\* the client methods (all GET requests) a listing handler awaits, in order
ClientMethodsOf(tool, variant) ==
    CASE tool = "get_overview" -> <<"getOverview">>
      [] tool = "list_queues" -> <<"listQueues">>
      [] tool = "get_queue" -> <<"getQueue">>
      [] tool = "list_exchanges" -> <<"listExchanges">>
      [] tool = "get_exchange" ->
           <<"getExchange", "listBindingsForExchange", "listBindingsForExchange">>
      [] tool = "list_bindings" ->
           IF variant = "queue" THEN <<"listBindingsForQueue">>
           ELSE <<"listBindingsForExchange", "listBindingsForExchange">>
      [] tool = "list_connections" -> <<"listConnections">>
      [] tool = "list_consumers" -> <<"listConsumers">>
      [] tool = "list_error_queues" -> <<"listQueues">>
      [] tool = "list_skipped_queues" -> <<"listQueues">>
      [] tool = "get_queue_health" -> <<"listQueues">>

ListingTools == {"get_overview", "list_queues", "get_queue", "list_exchanges",
                 "get_exchange", "list_bindings", "list_connections",
                 "list_consumers", "list_error_queues", "list_skipped_queues",
                 "get_queue_health"}

(***************************************************************************)
(* republish_from_error: the pieces of the handler (tools/masstransit.ts). *)
(***************************************************************************)
\* the response of a handler, as the fields its text is built from
Response(kind, shown, instructionCount, attempted, succeeded, errs, reported) ==
    [kind |-> kind, shown |-> shown, instructionCount |-> instructionCount,
     attempted |-> attempted, succeeded |-> succeeded, errors |-> errs,
     reported |-> reported, reports |-> <<>>]

\* a response whose text holds the reports of the messages it shows
WithReports(response, reports) == [response EXCEPT !.reports = reports]

NoResponse == Response("none", <<>>, 0, 0, 0, <<>>, 0)
\* variant of ErrorResponse that answers as for an empty queue
ErrorResponseMutEmpty == Response("empty", <<>>, 0, 0, 0, <<>>, 0)
\* the handler threw: the server answers with an error
ErrorResponse == Response("error", <<>>, 0, 0, 0, <<>>, 0)

\* the answer of a handler that formats what it shows: the response with the
\* reports, or the error when the formatting loop threw
Formatted(response, formatted) ==
    IF ~formatted.ok THEN ErrorResponse
    ELSE WithReports(response, formatted.reports)
\* `Queue "..." is empty - nothing to republish.`
NothingToRepublish == Response("empty", <<>>, 0, 0, 0, <<>>, 0)

\* count ?? 1
peekCountOf(count) == IF count = 0 THEN 1 ELSE count

\* variant of PreviewResponse whose instruction names the requested count
PreviewResponseMutRequested(messages, peekCount) ==
    IF Len(messages) = 0 THEN NothingToRepublish
    ELSE Formatted(Response("preview", messages, peekCount, 0, 0, <<>>, 0),
                   FormatAll(messages))
\* the preview branch after the read: the empty answer, or the reports of
\* the messages and "call again with confirm=true and
\* count=${messages.length}"; a TypeError of the formatting loop fails the
\* invocation
PreviewResponse(messages, peekCount) ==
    IF Len(messages) = 0 THEN NothingToRepublish
    ELSE Formatted(Response("preview", messages, Len(messages), 0, 0, <<>>, 0),
                   FormatAll(messages))

\* the queues of a set of names, the one with most messages first; queues with
\* as many messages come in the order the model picks
RECURSIVE SortByMessages(_, _)
SortByMessages(names, held) ==
    IF names = {} THEN <<>>
    ELSE LET top == CHOOSE n \in names :
                      \A other \in names : Len(held[n]) >= Len(held[other])
         IN <<top>> \o SortByMessages(names \ {top}, held)

\* list_error_queues and list_skipped_queues on the queues `held`:
\* the queues whose name has the suffix, without the empty ones unless
\* nonEmpty is false (variant "all"), sorted, each with its source queue
SuffixQueues(tool, variant, held) ==
    LET named == {n \in DOMAIN held :
                    IF tool = "list_error_queues" THEN isErrorQueue(n)
                    ELSE isSkippedQueue(n)}
        kept == IF variant # "all" THEN {n \in named : Len(held[n]) > 0}
                ELSE named
        sorted == SortByMessages(kept, held)
    IN [i \in 1..Len(sorted) |->
          [name |-> sorted[i], messages |-> Len(held[sorted[i]]),
           source |-> getSourceQueue(sorted[i])]]

\* the answer of a listing tool once its requests have succeeded
ListingResponse(tool, variant, held) ==
    IF tool \in {"list_error_queues", "list_skipped_queues"}
    THEN WithReports(Response("listed", <<>>, 0, 0, 0, <<>>, 0),
                     SuffixQueues(tool, variant, held))
    ELSE Response("listed", <<>>, 0, 0, 0, <<>>, 0)

\* peek_messages formats an envelope itself: a TypeError when a truthy
\* messageType cannot be mapped
PeekMessagesThrows(messages) ==
    \E i \in 1..Len(messages) :
       LET envelope == parseEnvelope(messages[i].payload) IN
       /\ Truthy(envelope)
       /\ Truthy(Prop(envelope, K_messageType))
       /\ ~MapTypeNames(Prop(envelope, K_messageType)).ok

\* the answer of peek_messages and of peek_errors after the read
PeekResponse(tool, messages) ==
    IF Len(messages) = 0 THEN Response("empty", <<>>, 0, 0, 0, <<>>, 0)
    ELSE IF tool = "peek_errors"
    THEN Formatted(Response("peeked", messages, 0, 0, 0, <<>>, 0), FormatAll(messages))
    ELSE IF PeekMessagesThrows(messages) THEN ErrorResponse
    ELSE Response("peeked", messages, 0, 0, 0, <<>>, 0)

\* variant of CommitResponse that reports every message as republished
CommitResponseMutAll(messages, count, errs) ==
    Response("republished", <<>>, 0, Len(messages), Len(messages), errs, 0)
\* `Republished ${republished}/${messages.length} message(s)` and the errors
CommitResponse(messages, count, errs) ==
    Response("republished", <<>>, 0, Len(messages), count, errs, 0)

\* variant of CommitEmptyResponse that reports "Republished 0/0"
CommitEmptyResponseMutReport(messages) == CommitResponse(messages, 0, <<>>)
\* the commit branch right after the read, when nothing was read
CommitEmptyResponse(messages) == NothingToRepublish

\* variant of ResolveDestination that falls back to the source queue when
\* the path of the address has no segment
ResolveDestinationMutFallback(envelope, errorQueue) ==
    IF Truthy(OptProp(envelope, K_destinationAddress))
    THEN LET url == URLparse(StringOf(Prop(envelope, K_destinationAddress)))
             pathParts == FilterNonEmpty(Split(url.pathname, "/"))
             targetExchange == IF pathParts = <<>> THEN getSourceQueue(errorQueue)
                               ELSE pathParts[Len(pathParts)]
         IN [ok |-> url.ok, exchange |-> targetExchange,
             routing_key |-> targetExchange]
    ELSE [ok |-> TRUE, exchange |-> getSourceQueue(errorQueue),
          routing_key |-> getSourceQueue(errorQueue)]
\* variant of ResolveDestination that takes the first path segment
ResolveDestinationMutFirst(envelope, errorQueue) ==
    IF Truthy(OptProp(envelope, K_destinationAddress))
    THEN LET url == URLparse(StringOf(Prop(envelope, K_destinationAddress)))
             pathParts == FilterNonEmpty(Split(url.pathname, "/"))
             targetExchange == IF pathParts = <<>> THEN <<>> ELSE pathParts[1]
         IN [ok |-> url.ok, exchange |-> targetExchange,
             routing_key |-> targetExchange]
    ELSE [ok |-> TRUE, exchange |-> getSourceQueue(errorQueue),
          routing_key |-> getSourceQueue(errorQueue)]
\* the exchange and routing key of a consumed message; ok = FALSE stands for
\* the TypeError of new URL(...)
ResolveDestination(envelope, errorQueue) ==
    IF Truthy(OptProp(envelope, K_destinationAddress))
    THEN LET url == URLparse(StringOf(Prop(envelope, K_destinationAddress)))
             pathParts == FilterNonEmpty(Split(url.pathname, "/"))
             targetExchange == IF pathParts = <<>> THEN <<>>
                               ELSE pathParts[Len(pathParts)]
         IN [ok |-> url.ok, exchange |-> targetExchange,
             routing_key |-> targetExchange]
    ELSE [ok |-> TRUE, exchange |-> getSourceQueue(errorQueue),
          routing_key |-> getSourceQueue(errorQueue)]

\* envelope?.message ? msg.payload : msg.payload
RepublishPayload(envelope, msg) ==
    IF Truthy(OptProp(envelope, K_message)) THEN msg.payload ELSE msg.payload

\* the properties argument of the publish call
RepublishProperties(msg) ==
    [content_type |-> Coalesce(msg.properties.content_type,
                               JStr(DefaultContentType)),
     headers |-> msg.properties.headers,
     message_id |-> msg.properties.message_id]

\* variant of ErrorEntry that drops the cause of the failure
ErrorEntryMutCause(count, cause) == [label |-> count + 1, cause |-> "publish"]
\* the entry pushed on `errors`: `Message ${republished + 1}: ${errMsg}`
ErrorEntry(count, cause) == [label |-> count + 1, cause |-> cause]

(***************************************************************************)
(* State.                                                                  *)
(***************************************************************************)
VARIABLES
    config,       \* process environment: [env, flag]
    tools,        \* names of the tools registered on the server
    queues,       \* broker: declared queue name -> its messages, head first
    pc,           \* "idle", "commit_loop", "move_loop", "purge", "done"
    req,          \* arguments of the invocation being handled
    batch,        \* `messages` read by the handler
    idx,          \* number of messages of batch the loop has processed
    republished,  \* `republished` / `moved`
    errors,       \* `errors`
    published,    \* publish requests of this invocation, with their outcome
    calls,        \* management-API requests of this invocation, in order
    result,       \* response of the invocation
    counted,      \* `count` read by purge_queue
    previewed,    \* history: queues a preview has read
    noted         \* history: what the caller keeps of its last preview, and
                  \* the queue as purge_queue found and emptied it

vars == <<config, tools, queues, pc, req, batch, idx, republished, errors,
          published, calls, result, counted, previewed, noted>>

locals == <<req, batch, idx, republished, errors, published, calls, result,
            counted>>

Request(tool, queue, count, confirm, exchange, routingKey) ==
    [tool |-> tool, queue |-> queue, count |-> count, confirm |-> confirm,
     exchange |-> exchange, routingKey |-> routingKey]

NoRequest == Request("none", <<>>, 0, FALSE, <<>>, JUndefined)

\* a request sent to the management API and how it ended
Call(kind, what, ok, returned) ==
    [kind |-> kind, what |-> what, ok |-> ok, returned |-> returned]

\* count arguments: 0 stands for an absent count
Counts == 0..MaxCount

RECURSIVE SumLen(_, _)
SumLen(f, names) ==
    IF names = {} THEN 0
    ELSE LET n == CHOOSE x \in names : TRUE
         IN Len(f[n]) + SumLen(f, names \ {n})

TotalMessages == SumLen(queues, DOMAIN queues)

\* a request on a queue can succeed only if the queue exists; any request can
\* fail (connection refused, authentication failure, HTTP error status)
Outcomes(q) == IF q \in DOMAIN queues THEN {TRUE, FALSE} ELSE {FALSE}

PublishOutcomes == {"failed", "routed", "unrouted"}

\* variant of PublishReturns in which an unrouted message raises
PublishReturnsMutRouted(outcome) == outcome = "routed"
\* `await client.publishMessage(...)` returns, with routed true or false,
\* unless the request failed
PublishReturns(outcome) == outcome # "failed"

\* the caller's record of a preview: the arguments it passed, the messages
\* the answer showed and, for reference, the queue as the read found it
Note(q, count, shown, contents) ==
    [on |-> TRUE, queue |-> q, count |-> count, shown |-> shown,
     contents |-> contents, removed |-> <<>>]

\* no preview recorded; with on = FALSE none is ever recorded
NoNote == [on |-> FALSE, queue |-> <<>>, count |-> 0, shown |-> <<>>,
           contents |-> <<>>, removed |-> <<>>]

\* the server started on a broker that holds the queues `names`, all empty
InitWith(names, note) ==
    /\ config \in [env : EnvValues, flag : BOOLEAN]
    /\ tools = RegisteredTools(allowMutativeTools(config.env, config.flag))
    /\ queues = [q \in names |-> <<>>]
    /\ pc = "idle"
    /\ req = NoRequest
    /\ batch = <<>>
    /\ idx = 0
    /\ republished = 0
    /\ errors = <<>>
    /\ published = <<>>
    /\ calls = <<>>
    /\ result = NoResponse
    /\ counted = 0
    /\ previewed = {}
    /\ noted = note

Init == InitWith(QueueNames, NoNote)

(***************************************************************************)
(* The environment: producers, consumers and operators of the broker.      *)
(* It acts between invocations and while purge_queue awaits; the loops of  *)
(* the other handlers read the broker only once, before looping.  A        *)
(* producer declares its queue when the queue is missing.                  *)
(***************************************************************************)
Produce(q, m) ==
    /\ pc \in {"idle", "purge"}
    /\ TotalMessages < MaxQueue
    /\ queues' = [x \in (DOMAIN queues) \cup {q} |->
                    IF x = q
                    THEN Append(IF q \in DOMAIN queues THEN queues[q] ELSE <<>>, m)
                    ELSE queues[x]]
    /\ UNCHANGED <<config, tools, pc, locals, previewed, noted>>

ExternalConsume(q) ==
    /\ pc \in {"idle", "purge"}
    /\ q \in DOMAIN queues
    /\ queues[q] # <<>>
    /\ queues' = [queues EXCEPT ![q] = Tail(@)]
    /\ UNCHANGED <<config, tools, pc, locals, previewed, noted>>

(***************************************************************************)
(* Tool handlers.  A handler runs only if its tool is registered.          *)
(***************************************************************************)
\* the eleven listing tools: GET requests awaited in order, the first
\* failure fails the invocation
InvokeListingTool(tool, variant) ==
    /\ pc = "idle"
    /\ tool \in tools
    /\ \E nOk \in 0..Len(ClientMethodsOf(tool, variant)) :
         LET methods == ClientMethodsOf(tool, variant)
             failed == nOk < Len(methods)
         IN /\ calls' = [i \in 1..(nOk + (IF failed THEN 1 ELSE 0)) |->
                           Call("GET", methods[i], i <= nOk, 0)]
            /\ result' = IF failed THEN ErrorResponse
                         ELSE ListingResponse(tool, variant, queues)
    /\ req' = Request(tool, <<>>, 0, FALSE, <<>>, JUndefined)
    /\ pc' = "done"
    /\ UNCHANGED <<config, tools, queues, batch, idx, republished, errors,
                   published, counted, previewed, noted>>

\* peek_messages and peek_errors: client.peekMessages(queue, count ?? 5)
PeekTool(tool, q, count) ==
    /\ pc = "idle"
    /\ tool \in tools
    /\ req' = Request(tool, q, count, FALSE, <<>>, JUndefined)
    /\ \E ok \in Outcomes(q) :
         LET body == peekMessages(IF count = 0 THEN 5 ELSE count) IN
         IF ok
         THEN LET got == BrokerGet(queues[q], body.count, body.ackmode) IN
              /\ queues' = [queues EXCEPT ![q] = got.remaining]
              /\ calls' = <<Call("get", body.ackmode, TRUE, Len(got.messages))>>
              /\ result' = PeekResponse(tool, got.messages)
         ELSE /\ queues' = queues
              /\ calls' = <<Call("get", body.ackmode, FALSE, 0)>>
              /\ result' = ErrorResponse
    /\ pc' = "done"
    /\ UNCHANGED <<config, tools, batch, idx, republished, errors, published,
                   counted, previewed, noted>>

\* republish_from_error without confirm: the preview
RepublishPreview(q, count) ==
    /\ pc = "idle"
    /\ "republish_from_error" \in tools
    /\ req' = Request("republish_from_error", q, count, FALSE, <<>>, JUndefined)
    /\ \E ok \in Outcomes(q) :
         LET body == peekMessages(peekCountOf(count)) IN
         IF ok
         THEN LET got == BrokerGet(queues[q], body.count, body.ackmode) IN
              /\ queues' = [queues EXCEPT ![q] = got.remaining]
              /\ calls' = <<Call("get", body.ackmode, TRUE, Len(got.messages))>>
              /\ result' = PreviewResponse(got.messages, peekCountOf(count))
              /\ previewed' = previewed \cup {q}
              /\ noted' = IF noted.on
                          THEN Note(q, count, result'.shown, queues[q])
                          ELSE noted
         ELSE /\ queues' = queues
              /\ calls' = <<Call("get", body.ackmode, FALSE, 0)>>
              /\ result' = ErrorResponse
              /\ UNCHANGED <<previewed, noted>>
    /\ pc' = "done"
    /\ UNCHANGED <<config, tools, batch, idx, republished, errors, published,
                   counted>>

\* republish_from_error with confirm = true: the read
RepublishCommitRead(q, count) ==
    /\ pc = "idle"
    /\ "republish_from_error" \in tools
    /\ req' = Request("republish_from_error", q, count, TRUE, <<>>, JUndefined)
    /\ \E ok \in Outcomes(q) :
         LET body == consumeMessages(peekCountOf(count)) IN
         IF ok
         THEN LET got == BrokerGet(queues[q], body.count, body.ackmode) IN
              /\ queues' = [queues EXCEPT ![q] = got.remaining]
              /\ calls' = <<Call("get", body.ackmode, TRUE, Len(got.messages))>>
              /\ batch' = got.messages
              /\ IF Len(got.messages) = 0
                 THEN /\ result' = CommitEmptyResponse(got.messages)
                      /\ pc' = "done"
                 ELSE /\ result' = NoResponse
                      /\ pc' = "commit_loop"
         ELSE /\ queues' = queues
              /\ calls' = <<Call("get", body.ackmode, FALSE, 0)>>
              /\ batch' = <<>>
              /\ result' = ErrorResponse
              /\ pc' = "done"
    /\ UNCHANGED <<config, tools, idx, republished, errors, published, counted,
                   previewed, noted>>

\* republish_from_error with confirm = true: one iteration of the loop, and
\* the return after the last one
RepublishCommitStep ==
    /\ pc = "commit_loop"
    /\ idx < Len(batch)
    /\ LET msg == batch[idx + 1]
           envelope == parseEnvelope(msg.payload)
           dest == ResolveDestination(envelope, req.queue)
           last == idx + 1 = Len(batch)
       IN /\ IF ~dest.ok
             THEN /\ errors' = Append(errors, ErrorEntry(republished, "TypeError"))
                  /\ UNCHANGED <<republished, published, calls>>
             ELSE \E outcome \in PublishOutcomes :
                    /\ published' =
                         Append(published,
                                [request |-> publishMessage(dest.exchange,
                                                            dest.routing_key,
                                                            RepublishPayload(envelope, msg),
                                                            RepublishProperties(msg)),
                                 outcome |-> outcome])
                    /\ calls' = Append(calls, Call("publish", "", PublishReturns(outcome), 0))
                    /\ IF PublishReturns(outcome)
                       THEN /\ republished' = republished + 1
                            /\ errors' = errors
                       ELSE /\ republished' = republished
                            /\ errors' = Append(errors, ErrorEntry(republished, "publish"))
          /\ idx' = idx + 1
          /\ IF last
             THEN /\ result' = CommitResponse(batch, republished', errors')
                  /\ pc' = "done"
             ELSE UNCHANGED <<result, pc>>
    /\ UNCHANGED <<config, tools, queues, req, batch, counted, previewed, noted>>

\* purge_queue: client.getQueue, whose message count is kept for the report
PurgeQueueCount(q) ==
    /\ pc = "idle"
    /\ "purge_queue" \in tools
    /\ req' = Request("purge_queue", q, 0, FALSE, <<>>, JUndefined)
    /\ \E ok \in Outcomes(q) :
         /\ calls' = <<Call("GET", "getQueue", ok, 0)>>
         /\ IF ok
            THEN /\ counted' = Len(queues[q])
                 /\ pc' = "purge"
                 /\ result' = NoResponse
                 /\ noted' = IF noted.on THEN Note(q, 0, <<>>, queues[q])
                             ELSE noted
            ELSE /\ counted' = counted
                 /\ pc' = "done"
                 /\ result' = ErrorResponse
                 /\ noted' = noted
    /\ UNCHANGED <<config, tools, queues, batch, idx, republished, errors,
                   published, previewed>>

\* variant of PurgeQueuePurge that reports the messages the purge found
PurgeQueuePurgeMutFound ==
    /\ pc = "purge"
    /\ \E ok \in Outcomes(req.queue) :
         /\ calls' = Append(calls, Call("purge", "", ok, 0))
         /\ IF ok
            THEN /\ queues' = [queues EXCEPT ![req.queue] = <<>>]
                 /\ result' = Response("purged", <<>>, 0, 0, 0, <<>>,
                                            Len(queues[req.queue]))
                 /\ noted' = IF noted.on
                             THEN [noted EXCEPT !.removed = queues[req.queue]]
                             ELSE noted
            ELSE /\ queues' = queues
                 /\ result' = ErrorResponse
                 /\ noted' = noted
    /\ pc' = "done"
    /\ UNCHANGED <<config, tools, req, batch, idx, republished, errors,
                   published, counted, previewed>>

\* purge_queue: client.purgeQueue and the report
PurgeQueuePurge ==
    /\ pc = "purge"
    /\ \E ok \in Outcomes(req.queue) :
         /\ calls' = Append(calls, Call("purge", "", ok, 0))
         /\ IF ok
            THEN /\ queues' = [queues EXCEPT ![req.queue] = <<>>]
                 /\ result' = Response("purged", <<>>, 0, 0, 0, <<>>, counted)
                 /\ noted' = IF noted.on
                             THEN [noted EXCEPT !.removed = queues[req.queue]]
                             ELSE noted
            ELSE /\ queues' = queues
                 /\ result' = ErrorResponse
                 /\ noted' = noted
    /\ pc' = "done"
    /\ UNCHANGED <<config, tools, req, batch, idx, republished, errors,
                   published, counted, previewed>>

\* delete_queue
DeleteQueue(q) ==
    /\ pc = "idle"
    /\ "delete_queue" \in tools
    /\ req' = Request("delete_queue", q, 0, FALSE, <<>>, JUndefined)
    /\ \E ok \in Outcomes(q) :
         /\ calls' = <<Call("delete", "", ok, 0)>>
         /\ IF ok
            THEN /\ queues' = [x \in (DOMAIN queues) \ {q} |-> queues[x]]
                 /\ result' = Response("deleted", <<>>, 0, 0, 0, <<>>, 0)
            ELSE /\ queues' = queues
                 /\ result' = ErrorResponse
    /\ pc' = "done"
    /\ UNCHANGED <<config, tools, batch, idx, republished, errors, published,
                   counted, previewed, noted>>

\* publish_message
PublishMessageTool(exchange, routingKey, payload, contentType) ==
    /\ pc = "idle"
    /\ "publish_message" \in tools
    /\ req' = Request("publish_message", <<>>, 0, FALSE, exchange, JStr(routingKey))
    /\ \E outcome \in PublishOutcomes :
         LET properties == IF Truthy(contentType)
                           THEN [content_type |-> contentType]
                           ELSE <<>>
         IN /\ published' = <<[request |-> publishMessage(exchange, routingKey,
                                                           payload, properties),
                               outcome |-> outcome]>>
            /\ calls' = <<Call("publish", "", outcome # "failed", 0)>>
            /\ result' = IF outcome = "failed" THEN ErrorResponse
                         ELSE Response(outcome, <<>>, 0, 0, 0, <<>>, 0)
    /\ pc' = "done"
    /\ UNCHANGED <<config, tools, queues, batch, idx, republished, errors,
                   counted, previewed, noted>>

\* move_messages: the read
MoveMessagesRead(q, destinationExchange, routingKey, count) ==
    /\ pc = "idle"
    /\ "move_messages" \in tools
    /\ req' = Request("move_messages", q, count, FALSE, destinationExchange,
                      routingKey)
    /\ \E ok \in Outcomes(q) :
         LET body == consumeMessages(peekCountOf(count)) IN
         IF ok
         THEN LET got == BrokerGet(queues[q], body.count, body.ackmode) IN
              /\ queues' = [queues EXCEPT ![q] = got.remaining]
              /\ calls' = <<Call("get", body.ackmode, TRUE, Len(got.messages))>>
              /\ batch' = got.messages
              /\ IF Len(got.messages) = 0
                 THEN /\ result' = Response("empty", <<>>, 0, 0, 0, <<>>, 0)
                      /\ pc' = "done"
                 ELSE /\ result' = NoResponse
                      /\ pc' = "move_loop"
         ELSE /\ queues' = queues
              /\ calls' = <<Call("get", body.ackmode, FALSE, 0)>>
              /\ batch' = <<>>
              /\ result' = ErrorResponse
              /\ pc' = "done"
    /\ UNCHANGED <<config, tools, idx, republished, errors, published, counted,
                   previewed, noted>>

\* variant of MoveMessagesStep that catches a failed publish and goes on
\* with the next message
MoveMessagesStepMutCatch ==
    /\ pc = "move_loop"
    /\ idx < Len(batch)
    /\ LET msg == batch[idx + 1]
           rk == StringOf(Coalesce(req.routingKey, JStr(req.exchange)))
           properties == [content_type |-> Coalesce(msg.properties.content_type,
                                                    JStr(DefaultContentType)),
                          headers |-> msg.properties.headers,
                          message_id |-> msg.properties.message_id,
                          correlation_id |-> msg.properties.correlation_id]
       IN \E outcome \in PublishOutcomes :
            /\ published' = Append(published,
                                   [request |-> publishMessage(req.exchange, rk,
                                                               msg.payload,
                                                               properties),
                                    outcome |-> outcome])
            /\ calls' = Append(calls, Call("publish", "", outcome # "failed", 0))
            /\ idx' = idx + 1
            /\ republished' = IF outcome = "failed" THEN republished
                              ELSE republished + 1
            /\ IF idx + 1 = Len(batch)
               THEN /\ result' = Response("moved", <<>>, 0, 0, republished', <<>>, 0)
                    /\ pc' = "done"
               ELSE UNCHANGED <<result, pc>>
    /\ UNCHANGED <<config, tools, queues, req, batch, errors, counted, previewed, noted>>

\* move_messages: one iteration of the loop; a failed publish is not caught
MoveMessagesStep ==
    /\ pc = "move_loop"
    /\ idx < Len(batch)
    /\ LET msg == batch[idx + 1]
           rk == StringOf(Coalesce(req.routingKey, JStr(req.exchange)))
           properties == [content_type |-> Coalesce(msg.properties.content_type,
                                                    JStr(DefaultContentType)),
                          headers |-> msg.properties.headers,
                          message_id |-> msg.properties.message_id,
                          correlation_id |-> msg.properties.correlation_id]
       IN \E outcome \in PublishOutcomes :
            /\ published' = Append(published,
                                   [request |-> publishMessage(req.exchange, rk,
                                                               msg.payload,
                                                               properties),
                                    outcome |-> outcome])
            /\ calls' = Append(calls, Call("publish", "", outcome # "failed", 0))
            /\ idx' = idx + 1
            /\ IF outcome = "failed"
               THEN /\ republished' = republished
                    /\ result' = ErrorResponse
                    /\ pc' = "done"
               ELSE /\ republished' = republished + 1
                    /\ IF idx + 1 = Len(batch)
                       THEN /\ result' = Response("moved", <<>>, 0, 0,
                                                  republished + 1, <<>>, 0)
                            /\ pc' = "done"
                       ELSE UNCHANGED <<result, pc>>
    /\ UNCHANGED <<config, tools, queues, req, batch, errors, counted, previewed, noted>>

\* the response has been sent; the handler's locals are gone
Return ==
    /\ pc = "done"
    /\ pc' = "idle"
    /\ req' = NoRequest
    /\ batch' = <<>>
    /\ idx' = 0
    /\ republished' = 0
    /\ errors' = <<>>
    /\ published' = <<>>
    /\ calls' = <<>>
    /\ result' = NoResponse
    /\ counted' = 0
    /\ UNCHANGED <<config, tools, queues, previewed, noted>>

\* the messages producers send in Spec, and those they send in SpecRepublish
ToolsPool == {MsgDest, MsgBadDest}

Next ==
    \/ \E q \in QueueNames, m \in ToolsPool : Produce(q, m)
    \/ \E q \in QueueNames : ExternalConsume(q)
    \/ \E tool \in ListingTools, variant \in {"queue", "exchange"} :
         InvokeListingTool(tool, variant)
    \/ \E tool \in {"peek_messages", "peek_errors"}, q \in QueueNames,
          count \in Counts : PeekTool(tool, q, count)
    \/ \E q \in QueueNames, count \in Counts : RepublishPreview(q, count)
    \/ \E q \in QueueNames, count \in Counts : RepublishCommitRead(q, count)
    \/ RepublishCommitStep
    \/ \E q \in QueueNames : PurgeQueueCount(q)
    \/ PurgeQueuePurge
    \/ \E q \in QueueNames : DeleteQueue(q)
    \/ \E payload \in {MsgNoDest.payload, MsgRaw.payload},
          contentType \in {JUndefined, JStr(<<"j">>)} :
         PublishMessageTool(<<"x">>, <<"k">>, payload, contentType)
    \/ \E q \in QueueNames, routingKey \in {JUndefined, JStr(<<"k">>)},
          count \in Counts : MoveMessagesRead(q, <<"x">>, routingKey, count)
    \/ MoveMessagesStep
    \/ Return

\* the server under every configuration, all its tools
Spec == Init /\ [][Next]_vars

InitRepublish ==
    /\ Init
    /\ "republish_from_error" \in tools
    /\ config.env = EnvTrue
    /\ ~config.flag

NextRepublish ==
    \/ \E q \in QueueNames, m \in MsgPool : Produce(q, m)
    \/ \E q \in QueueNames : ExternalConsume(q)
    \/ \E q \in QueueNames, count \in Counts : RepublishPreview(q, count)
    \/ \E q \in QueueNames, count \in Counts : RepublishCommitRead(q, count)
    \/ RepublishCommitStep
    \/ Return

\* the server with mutative tools enabled, republish_from_error only, over
\* every kind of message
SpecRepublish == InitRepublish /\ [][NextRepublish]_vars

InitSession ==
    /\ InitWith(QueueNames, [NoNote EXCEPT !.on = TRUE])
    /\ "republish_from_error" \in tools
    /\ config.env = EnvTrue
    /\ ~config.flag

NextSession ==
    \/ \E q \in QueueNames, m \in ToolsPool : Produce(q, m)
    \/ \E q \in QueueNames : ExternalConsume(q)
    \/ \E q \in QueueNames, count \in Counts : RepublishPreview(q, count)
    \/ \E q \in QueueNames, count \in Counts : RepublishCommitRead(q, count)
    \/ RepublishCommitStep
    \/ Return

\* republish_from_error used by a caller that keeps the answer of its last
\* preview, on a broker that producers and consumers keep using
SpecSession == InitSession /\ [][NextSession]_vars

InitPurge ==
    /\ InitWith({QOrdersError}, [NoNote EXCEPT !.on = TRUE])
    /\ "purge_queue" \in tools
    /\ config.env = EnvTrue
    /\ ~config.flag

NextPurge ==
    \/ \E m \in ToolsPool : Produce(QOrdersError, m)
    \/ ExternalConsume(QOrdersError)
    \/ PurgeQueueCount(QOrdersError)
    \/ PurgeQueuePurge
    \/ Return

\* purge_queue on a queue that producers and consumers keep using, with the
\* queue as the count read found it and as the purge emptied it on record
SpecPurge == InitPurge /\ [][NextPurge]_vars

InitFormat ==
    /\ InitWith({QOrdersError}, NoNote)
    /\ "republish_from_error" \in tools
    /\ config.env = EnvTrue
    /\ ~config.flag

NextFormat ==
    \/ \E m \in FormatPool : Produce(QOrdersError, m)
    \/ \E count \in Counts : PeekTool("peek_errors", QOrdersError, count)
    \/ \E count \in Counts : RepublishPreview(QOrdersError, count)
    \/ Return

\* the tools that format the messages of an error queue, over messages of
\* every kind the formatter tells apart
SpecFormat == InitFormat /\ [][NextFormat]_vars

NextLimits ==
    \/ \E m \in LimitPool : Produce(QOrdersError, m)
    \/ \E count \in Counts : PeekTool("peek_errors", QOrdersError, count)
    \/ \E count \in Counts : RepublishPreview(QOrdersError, count)
    \/ Return

\* the tools that format the messages of an error queue, over faults whose
\* stack traces and original payloads lie on both sides of the limits
SpecLimits == InitFormat /\ [][NextLimits]_vars

NextAddress ==
    \/ \E m \in AddressPool : Produce(QOrdersError, m)
    \/ \E count \in Counts : RepublishCommitRead(QOrdersError, count)
    \/ RepublishCommitStep
    \/ Return

\* the commit of republish_from_error over messages whose destination
\* address has a path without segment, a path with segments, or is absent
SpecAddress == InitFormat /\ [][NextAddress]_vars

\* "o", "o_error", "o_skipped", "o_skipped_error", "o_error_skipped",
\* "_error" and "o_errors"
NamePool ==
    {<<"o">>, <<"o">> \o ERROR_SUFFIX, <<"o">> \o SKIPPED_SUFFIX,
     <<"o">> \o SKIPPED_SUFFIX \o ERROR_SUFFIX,
     <<"o">> \o ERROR_SUFFIX \o SKIPPED_SUFFIX,
     ERROR_SUFFIX, <<"o">> \o ERROR_SUFFIX \o <<"s">>}

InitNames == InitWith(NamePool, NoNote)

NextNames ==
    \/ \E q \in NamePool : Produce(q, MsgNoDest)
    \/ \E q \in NamePool : ExternalConsume(q)
    \/ \E tool \in {"list_error_queues", "list_skipped_queues"},
          variant \in {"nonEmpty", "all"} : InvokeListingTool(tool, variant)
    \/ Return

\* the tools that list the error and skipped queues, on a broker whose
\* queues bear names of every kind
SpecNames == InitNames /\ [][NextNames]_vars

(***************************************************************************)
(* Properties.                                                             *)
(***************************************************************************)
\* the step is a whole preview invocation of republish_from_error
PreviewStep ==
    /\ pc = "idle"
    /\ pc' = "done"
    /\ req'.tool = "republish_from_error"
    /\ ~req'.confirm

\* the step is the read of a commit invocation of republish_from_error
CommitReadStep ==
    /\ pc = "idle"
    /\ pc' \in {"commit_loop", "done"}
    /\ req'.tool = "republish_from_error"
    /\ req'.confirm

\* the step is one iteration of the commit loop
CommitLoopStep == pc = "commit_loop" /\ idx' = idx + 1

\* C1: a preview (confirm absent or false) leaves every queue's messages and
\* their order unchanged and issues no publish request, whatever the queue
\* holds and whatever count is asked
C1_PreviewNonDestructive ==
    [][PreviewStep =>
         /\ queues' = queues
         /\ published' = <<>>
         /\ \A i \in 1..Len(calls') : calls'[i].kind # "publish"]_vars

\* a preview has shown a message of a queue that holds several
C1_Witness ==
    /\ pc = "done"
    /\ req.tool = "republish_from_error"
    /\ ~req.confirm
    /\ result.kind = "preview"
    /\ Len(queues[req.queue]) >= 2

\* the step is a republish_from_error invocation's read, preview or commit
RepublishReadStep ==
    /\ pc = "idle"
    /\ pc' # "idle"
    /\ req'.tool = "republish_from_error"

\* C2 (as stated): whenever a commit has consumed messages of a queue, a
\* preview of that queue has come before
C2_CommitAfterPreview ==
    (req.tool = "republish_from_error" /\ req.confirm /\ batch # <<>>)
        => req.queue \in previewed

\* C2 (amended): the order is not enforced; an invocation removes messages
\* from a queue exactly when it has confirm = true and its read returns at
\* least one message, and an invocation without confirm removes none
C2_ConsumesIffConfirmed ==
    [][RepublishReadStep =>
         /\ (queues' # queues) <=> (req'.confirm /\ batch' # <<>>)
         /\ ~req'.confirm => batch' = <<>>]_vars

\* a commit has republished from a queue although nothing was ever previewed
C2_Witness ==
    /\ pc = "done"
    /\ req.confirm
    /\ result.kind = "republished"
    /\ previewed = {}

\* C3 (as stated): after a commit every consumed message has had exactly one
\* publish attempt, and succeeded + |perMessageErrors| = attempted with
\* 0 <= succeeded <= attempted <= count <= 50
C3_OneAttemptPerMessage ==
    (pc = "done" /\ result.kind = "republished") =>
        /\ Len(published) = result.attempted
        /\ result.succeeded + Len(result.errors) = result.attempted
        /\ 0 <= result.succeeded
        /\ result.succeeded <= result.attempted
        /\ result.attempted <= peekCountOf(req.count)
        /\ peekCountOf(req.count) <= 50

\* the message the next iteration of the commit loop handles has an envelope
\* whose destinationAddress is present and is not a URI
NextHasMalformedAddress ==
    LET envelope == parseEnvelope(batch[idx + 1].payload) IN
    /\ Truthy(OptProp(envelope, K_destinationAddress))
    /\ ~URLparse(StringOf(Prop(envelope, K_destinationAddress))).ok

\* C4 (as stated): a consumed message whose destinationAddress is not a URI
\* is republished to getSourceQueue(errorQueue) as exchange and routing key,
\* is counted as succeeded when that publish succeeds, and adds no error
\* for the parse failure
C4_MalformedAddressFallsBack ==
    [][(CommitLoopStep /\ NextHasMalformedAddress) =>
         /\ Len(published') = Len(published) + 1
         /\ LET sent == published'[Len(published')] IN
            /\ sent.request.exchange = getSourceQueue(req.queue)
            /\ sent.request.routing_key = getSourceQueue(req.queue)
            /\ sent.outcome # "failed" =>
                 (republished' = republished + 1 /\ errors' = errors)]_vars

(***************************************************************************)
(* The destination of an address, stated on the text of the URI: for       *)
(* scheme://authority/path[?query], seg is the last non-empty path segment *)
(* when it follows a "/" of the path, holds no "/", and only "/" stand     *)
(* between it and the end of the path.                                     *)
(***************************************************************************)
PlainChars == Letters \cup Digits \cup {"-", "_"}

\* index of the "/" that starts the path of scheme://authority/path, or 0
PathStartOf(uri) ==
    LET c == IndexOfAny(uri, {":"}, 1) IN
    IF /\ 1 < c
       /\ c + 2 <= Len(uri)
       /\ \A i \in 1..(c - 1) : uri[i] \in Letters
       /\ uri[c + 1] = "/"
       /\ uri[c + 2] = "/"
       /\ IndexOfAny(uri, {"/"}, c + 3) <= Len(uri)
       /\ \A i \in (c + 3)..(IndexOfAny(uri, {"/"}, c + 3) - 1) :
            uri[i] \in Letters \cup Digits \cup {":"}
    THEN IndexOfAny(uri, {"/"}, c + 3)
    ELSE 0

\* index of the last character of the path
PathEndOf(uri) == IndexOfAny(uri, {"?", "#"}, 1) - 1

IsLastSegment(uri, seg) ==
    /\ PathStartOf(uri) > 0
    /\ seg # <<>>
    /\ \A i \in PathStartOf(uri)..PathEndOf(uri) : uri[i] \in PlainChars \cup {"/"}
    /\ \E i \in (PathStartOf(uri) + 1)..PathEndOf(uri) :
         LET j == i + Len(seg) - 1 IN
         /\ j <= PathEndOf(uri)
         /\ uri[i - 1] = "/"
         /\ SubSeq(uri, i, j) = seg
         /\ \A k \in 1..Len(seg) : seg[k] # "/"
         /\ \A k \in (j + 1)..PathEndOf(uri) : uri[k] = "/"

\* C5: in the commit loop a message whose envelope has a URI as
\* destinationAddress is published to the exchange named by the last
\* non-empty path segment of the URI, with that name as routing key; a
\* message with no envelope or no destinationAddress is published to
\* getSourceQueue(errorQueue) as exchange and routing key
\* ("r://h/v/x" gives "x"; queue "o_error" gives "o")
C5_DestinationResolution ==
    [][CommitLoopStep =>
         LET msg == batch[idx + 1]
             envelope == parseEnvelope(msg.payload)
             address == OptProp(envelope, K_destinationAddress)
             sent == published'[Len(published')].request
         IN /\ \A seg \in {<<"x">>, <<"y">>, <<"v">>, <<"h">>} :
                 (address.k = "str" /\ IsLastSegment(address.v, seg)) =>
                     /\ Len(published') = Len(published) + 1
                     /\ sent.exchange = seg
                     /\ sent.routing_key = seg
            /\ (envelope = JNull \/ address = JUndefined) =>
                 /\ Len(published') = Len(published) + 1
                 /\ sent.exchange = getSourceQueue(req.queue)
                 /\ sent.routing_key = sent.exchange
                 /\ req.queue = QOrdersError => sent.exchange = <<"o">>
            /\ msg = MsgDest =>
                 (Len(published') = Len(published) + 1 /\ sent.exchange = <<"x">>)]_vars

\* one commit has published a message to the exchange of its address and
\* another to the source queue of "o_error"
C5_Witness ==
    /\ pc = "done"
    /\ result.kind = "republished"
    /\ \E i, j \in 1..Len(published) :
         /\ published[i].request.exchange = <<"x">>
         /\ published[j].request.exchange = <<"o">>

\* C6: a commit with count c on a queue of n messages takes the first
\* min(c, n) messages, leaves the others in their order, leaves the other
\* queues alone, and reports attempted = min(c, n)
C6_CommitRemovesPrefix ==
    /\ [][(CommitReadStep /\ calls'[1].ok) =>
            LET q == req'.queue
                n == Len(queues[q])
                k == Min(peekCountOf(req'.count), n)
            IN /\ batch' = SubSeq(queues[q], 1, k)
               /\ queues'[q] = SubSeq(queues[q], k + 1, n)
               /\ \A o \in (DOMAIN queues) \ {q} : queues'[o] = queues[o]
               /\ DOMAIN queues' = DOMAIN queues
               /\ calls'[1].returned = k]_vars
    /\ [](result.kind = "republished" =>
            /\ result.attempted = Len(batch)
            /\ result.attempted = calls[1].returned)

\* a commit has taken fewer messages than the queue held
C6_Witness ==
    /\ pc = "done"
    /\ result.kind = "republished"
    /\ result.attempted = peekCountOf(req.count)
    /\ queues[req.queue] # <<>>

\* C7: a republished message carries the payload as read, the content_type
\* of the read message or the default when it has none, and the headers and
\* message_id of the read message
C7_PublishedAsRead ==
    [][(CommitLoopStep /\ Len(published') = Len(published) + 1) =>
         LET msg == batch[idx + 1]
             sent == published'[Len(published')].request
         IN /\ sent.payload = msg.payload
            /\ Field(sent.properties, "content_type") =
                 (IF msg.properties.content_type = JUndefined
                  THEN JStr(DefaultContentType)
                  ELSE msg.properties.content_type)
            /\ Field(sent.properties, "headers") = msg.properties.headers
            /\ Field(sent.properties, "message_id") = msg.properties.message_id]_vars

\* one commit has republished a message with its own content type and
\* another with the default
C7_Witness ==
    /\ pc = "done"
    /\ result.kind = "republished"
    /\ \E i, j \in 1..Len(published) :
         /\ Field(published[i].request.properties, "content_type") = JStr(<<"j">>)
         /\ Field(published[i].request.properties, "headers") # JUndefined
         /\ Field(published[j].request.properties, "content_type")
              = JStr(DefaultContentType)

\* the tools the README lists as read-only and as mutative
ReadOnlyTools == {"get_overview", "list_queues", "get_queue", "list_exchanges",
                  "get_exchange", "list_bindings", "list_connections",
                  "list_consumers", "peek_messages", "list_error_queues",
                  "list_skipped_queues", "peek_errors", "get_queue_health"}

MutativeTools == {"purge_queue", "delete_queue", "publish_message",
                  "move_messages", "republish_from_error"}

\* ALLOW_MUTATIVE_TOOLS is not "true" and --allow-mutative-tools is not given
MutativeDisabled == config.env # EnvTrue /\ ~config.flag

C9_InstructionNamesRequestedCount ==
    (pc = "done" /\ result.kind = "preview") =>
        result.instructionCount = peekCountOf(req.count)

\* C9 (amended): the instruction of a preview names the number of messages
\* the preview returned, min(requested count, messages in the queue), which
\* is the requested count exactly when the queue holds that many messages
C9_InstructionNamesReturnedCount ==
    (pc = "done" /\ result.kind = "preview") =>
        /\ result.instructionCount = Len(result.shown)
        /\ result.instructionCount =
             Min(peekCountOf(req.count), Len(queues[req.queue]))
        /\ result.instructionCount >= 1
        /\ (result.instructionCount = peekCountOf(req.count))
             <=> (Len(queues[req.queue]) >= peekCountOf(req.count))

\* a preview of a queue that holds fewer messages than were asked for
C9_Witness ==
    /\ pc = "done"
    /\ result.kind = "preview"
    /\ Len(queues[req.queue]) < peekCountOf(req.count)

\* C10: a republish_from_error whose read returns no message, preview or
\* commit, answers "nothing to republish" as a normal result, publishes
\* nothing and leaves the queue empty
C10_EmptyQueueIsNotAnError ==
    [][(RepublishReadStep /\ calls'[1].ok /\ calls'[1].returned = 0) =>
         /\ pc' = "done"
         /\ result'.kind = "empty"
         /\ published' = <<>>
         /\ Len(calls') = 1
         /\ queues[req'.queue] = <<>>
         /\ queues' = queues]_vars

\* a commit on an empty queue has answered "nothing to republish"
C10_Witness ==
    /\ pc = "done"
    /\ req.tool = "republish_from_error"
    /\ req.confirm
    /\ calls = <<Call("get", "ack_requeue_false", TRUE, 0)>>
    /\ result = NothingToRepublish

(***************************************************************************)
(* C11: preview and commit read the queue independently.  When the queue   *)
(* holds at the commit what it held at the preview, a commit with the      *)
(* count of the preview consumes exactly the messages the preview showed,  *)
(* in the same order.  Nothing fences the two calls: after a consumer or   *)
(* a producer has changed the queue, the commit consumes a message the     *)
(* preview did not show (C11_Witness).                                     *)
(***************************************************************************)
\* a commit read that succeeded, made with the arguments of the noted preview
CommitOfNotedPreview ==
    /\ CommitReadStep
    /\ noted.on
    /\ noted.shown # <<>>
    /\ req'.queue = noted.queue
    /\ req'.count = noted.count
    /\ calls'[1].ok

\* C11: a commit made with the queue and count of the last preview, on a queue
\* that holds what the preview found, consumes exactly the messages shown
C11_CommitConsumesWhatPreviewShowed ==
    [][(CommitOfNotedPreview /\ queues[noted.queue] = noted.contents)
        => batch' = noted.shown]_vars

\* the queue changed after the preview, and the commit has consumed a message
\* that the preview did not show
C11_Witness ==
    /\ pc = "commit_loop"
    /\ noted.on
    /\ req.queue = noted.queue
    /\ req.count = noted.count
    /\ noted.shown # <<>>
    /\ \E i \in 1..Len(batch) :
         \A j \in 1..Len(noted.shown) : batch[i] # noted.shown[j]

\* a commit has consumed exactly what the preview before it showed
C11_SameBatch ==
    /\ pc = "commit_loop"
    /\ noted.on
    /\ req.queue = noted.queue
    /\ req.count = noted.count
    /\ batch = noted.shown
    /\ Len(batch) = 2
    /\ batch[1] # batch[2]

(***************************************************************************)
(* Properties of the formatter, stated on the messages the broker holds    *)
(* and on the answers of peek_errors and of the preview.                   *)
(***************************************************************************)
\* the messages the broker holds
Queued == UNION {{queues[q][i] : i \in 1..Len(queues[q])} : q \in DOMAIN queues}

HeadersOf(m) == Coalesce(m.properties.headers, JObj(<<>>))

HasKey(o, key) == o.k = "obj" /\ key \in DOMAIN o.v

HasLine(report, label) == \E i \in 1..Len(report.lines) : report.lines[i].label = label

\* the text of the line with the label
TextOfLine(report, label) ==
    report.lines[CHOOSE i \in 1..Len(report.lines) : report.lines[i].label = label].text

\* the needle is a substring of the text
Occurs(needle, text) ==
    \E i \in 1..(Len(text) - Len(needle) + 1) :
       SubSeq(text, i, i + Len(needle) - 1) = needle

\* the lines whose label is not in the set
RECURSIVE Without(_, _)
Without(lines, labels) ==
    IF lines = <<>> THEN <<>>
    ELSE IF Head(lines).label \in labels THEN Without(Tail(lines), labels)
    ELSE <<Head(lines)>> \o Without(Tail(lines), labels)

\* peek_errors or the preview has answered after a read that succeeded
FormattedAnswer ==
    /\ pc = "done"
    /\ req.tool \in {"peek_errors", "republish_from_error"}
    /\ ~req.confirm
    /\ calls[1].ok

\* the texts of the fields of a body fault
BodyFaultTexts(bodyFault) ==
    {StringOf(v) : v \in {x \in {bodyFault.faultedMessageId, bodyFault.timestamp,
                                 OptProp(First(bodyFault.exceptions), K_exceptionType),
                                 OptProp(bodyFault.host, K_machineName)} :
                            x.k = "str"}}

C13_FaultIffKeyPresent ==
    \A m \in Queued :
       parseFaultFromHeaders(HeadersOf(m)).k = "fault"
       <=> \/ HasKey(HeadersOf(m), K_MT_Reason)
           \/ HasKey(HeadersOf(m), K_MT_Fault_ExceptionType)

\* a header value that JavaScript takes for true: a string that is not
\* empty, a number other than 0, true, an array or an object
TruthyHeader(headers, key) ==
    /\ HasKey(headers, key)
    /\ LET x == headers.v[key] IN
       \/ x.k = "str" /\ Len(x.v) > 0
       \/ x.k = "num" /\ x.v # <<"0">>
       \/ x.k = "bool" /\ x.v
       \/ x.k \in {"arr", "obj"}

\* C13: parseFaultFromHeaders returns a Fault exactly when the value under
\* MT-Reason or under MT-Fault-ExceptionType is truthy; a key that holds an
\* empty string counts as absent, and so does a message without those keys.
\* The report that peek_errors and the preview give agrees: it has a Reason
\* line exactly for the messages with such a value
C13_FaultIffValueTruthy ==
    /\ \A m \in Queued :
          parseFaultFromHeaders(HeadersOf(m)).k = "fault"
          <=> \/ TruthyHeader(HeadersOf(m), K_MT_Reason)
              \/ TruthyHeader(HeadersOf(m), K_MT_Fault_ExceptionType)
    /\ (FormattedAnswer /\ result.kind \in {"peeked", "preview"}) =>
          \A i \in 1..Len(result.shown) :
             HasLine(result.reports[i], "Reason")
             <=> \/ TruthyHeader(HeadersOf(result.shown[i]), K_MT_Reason)
                 \/ TruthyHeader(HeadersOf(result.shown[i]), K_MT_Fault_ExceptionType)

\* peek_errors has shown a message whose MT-Reason header is empty, and not
\* as a fault
C13_Witness ==
    /\ FormattedAnswer
    /\ result.kind = "peeked"
    /\ \E i \in 1..Len(result.shown) :
         /\ HasKey(HeadersOf(result.shown[i]), K_MT_Reason)
         /\ HeadersOf(result.shown[i]).v[K_MT_Reason] = JStr(<<>>)
         /\ ~HasLine(result.reports[i], "Reason")
         /\ parseFaultFromHeaders(HeadersOf(result.shown[i])) = JNull

EnvelopeKeys == {K_messageType, K_messageId, K_message}

\* the original statement of C14: parseEnvelope returns absence for a
\* payload that is no JSON and for JSON with none of the keys messageType,
\* messageId, message, and the parsed object when it has one of them
C14_EnvelopeIffKeyPresent ==
    \A m \in Queued :
       LET p == JSONparse(m.payload) IN
       /\ ~p.ok => parseEnvelope(m.payload) = JNull
       /\ (p.ok /\ \A key \in EnvelopeKeys : ~HasKey(p.val, key))
             => parseEnvelope(m.payload) = JNull
       /\ (p.ok /\ \E key \in EnvelopeKeys : HasKey(p.val, key))
             => parseEnvelope(m.payload) = p.val

\* a JSON value that JavaScript takes for false
Falsy(x) ==
    \/ x.k \in {"undefined", "null"}
    \/ x.k = "bool" /\ ~x.v
    \/ x.k = "num" /\ x.v = <<"0">>
    \/ x.k = "str" /\ x.v = <<>>

\* C14: parseEnvelope never raises.  It returns absence for a payload that
\* is no JSON, for JSON that is no object, and for an object in which every
\* one of messageType, messageId, message is missing or falsy (null, false,
\* 0, ""); it returns the parsed object when one of the three has a truthy
\* value.  The reports agree: a message is shown raw exactly when it has
\* neither a fault nor such an object
C14_EnvelopeIffKeyTruthy ==
    /\ \A m \in Queued :
          LET p == JSONparse(m.payload) IN
          /\ ~p.ok => parseEnvelope(m.payload) = JNull
          /\ (p.ok /\ p.val.k # "obj") => parseEnvelope(m.payload) = JNull
          /\ (p.ok /\ p.val.k = "obj") =>
                IF \E key \in EnvelopeKeys :
                      HasKey(p.val, key) /\ ~Falsy(p.val.v[key])
                THEN parseEnvelope(m.payload) = p.val
                ELSE parseEnvelope(m.payload) = JNull
    /\ (FormattedAnswer /\ result.kind \in {"peeked", "preview"}) =>
          \A i \in 1..Len(result.shown) :
             LET p == JSONparse(result.shown[i].payload) IN
             (result.reports[i].shape \in {"raw", "header"})
             \/ /\ p.ok
                /\ p.val.k = "obj"
                /\ \E key \in EnvelopeKeys :
                      HasKey(p.val, key) /\ ~Falsy(p.val.v[key])

\* peek_errors has shown raw a message whose payload is a JSON object that
\* has the key messageId, with an empty value
C14_Witness ==
    /\ FormattedAnswer
    /\ result.kind = "peeked"
    /\ \E i \in 1..Len(result.shown) :
         LET p == JSONparse(result.shown[i].payload) IN
         /\ p.ok
         /\ HasKey(p.val, K_messageId)
         /\ parseEnvelope(result.shown[i].payload) = JNull
         /\ result.reports[i].shape = "raw"

\* the original statement of C15: formatting never raises, so peek_errors
\* and the preview answer for every content of the queue once the read has
\* succeeded
C15_FormattingNeverRaises ==
    /\ \A m \in Queued : formatFaultMessage(m, 0).ok
    /\ FormattedAnswer => result.kind # "error"

(***************************************************************************)
(* C16: a failed read is fatal for the invocation and nothing is retried.  *)
(***************************************************************************)
\* the number of requests of a kind among the requests of the invocation
RECURSIVE CountCalls(_, _)
CountCalls(cs, kind) ==
    IF cs = <<>> THEN 0
    ELSE (IF Head(cs).kind = kind THEN 1 ELSE 0) + CountCalls(Tail(cs), kind)

\* the invocation in progress is one of republish_from_error
Republishing == req.tool = "republish_from_error"

\* no retry: at most one read, at most one publish per message processed; a
\* read that failed has ended the invocation with an error and no publish
NoRetryState ==
    Republishing =>
       /\ CountCalls(calls, "get") <= 1
       /\ CountCalls(calls, "publish") <= idx
       /\ idx <= Len(batch)
       /\ Len(published) = CountCalls(calls, "publish")
       /\ (calls # <<>> /\ ~calls[1].ok) =>
             /\ pc = "done"
             /\ result.kind = "error"
             /\ Len(calls) = 1
             /\ published = <<>>
             /\ batch = <<>>

\* C16: a read that fails (peek in the preview, consume in the commit) fails
\* the invocation: the caller gets the error, the queue is as it was and
\* nothing is published; no request is retried, so an invocation issues at
\* most one read and, for each consumed message, at most one publish
C16_ReadFailureIsFatal ==
    /\ []NoRetryState
    /\ [][(RepublishReadStep /\ ~calls'[1].ok)
           => (queues' = queues /\ result'.kind = "error" /\ pc' = "done")]_vars
    /\ [][CommitLoopStep
           => CountCalls(calls', "publish") <= CountCalls(calls, "publish") + 1]_vars

\* the read of a commit has failed and the invocation has ended
C16_Witness ==
    /\ Republishing
    /\ req.confirm
    /\ pc = "done"
    /\ calls # <<>>
    /\ ~calls[1].ok
    /\ result.kind = "error"
    /\ queues[req.queue] # <<>>

(***************************************************************************)
(* C20: the commit loop handles the consumed messages one after the other. *)
(***************************************************************************)
\* what the loop must have recorded after the first n messages of the batch,
\* given the outcomes of its publish requests in the order they were made:
\* the payloads published and the causes of the failures, both in the order
\* of the batch
RECURSIVE Processed(_, _, _, _)
Processed(q, msgs, outcomes, n) ==
    IF n = 0 THEN [payloads |-> <<>>, causes |-> <<>>, used |-> 0]
    ELSE LET before == Processed(q, msgs, outcomes, n - 1)
             msg == msgs[n]
             addressed == ResolveDestination(parseEnvelope(msg.payload), q).ok
         IN IF ~addressed
            THEN [before EXCEPT !.causes = Append(@, "TypeError")]
            ELSE IF before.used >= Len(outcomes)
            THEN [before EXCEPT !.payloads = Append(@, <<"missing">>)]
            ELSE [payloads |-> Append(before.payloads, msg.payload),
                  causes |-> IF outcomes[before.used + 1] = "failed"
                             THEN Append(before.causes, "publish")
                             ELSE before.causes,
                  used |-> before.used + 1]

\* C20: in the commit the publishes are issued one at a time in the order
\* the messages were consumed: after n iterations the publish requests made
\* are those of the first n messages, in that order, each with its outcome
\* known, and the error list holds the failures of those messages in that
\* same order; an iteration adds at most one publish and at most one error,
\* at the end of the lists
C20_SequentialInOrder ==
    /\ [](Republishing /\ req.confirm =>
            LET done == Processed(req.queue, batch,
                                  [i \in 1..Len(published) |-> published[i].outcome],
                                  idx)
            IN /\ [i \in 1..Len(published) |-> published[i].request.payload]
                     = done.payloads
               /\ [i \in 1..Len(errors) |-> errors[i].cause] = done.causes
               /\ done.used = Len(published))
    /\ [][CommitLoopStep =>
            /\ \/ published' = published
               \/ /\ Len(published') = Len(published) + 1
                  /\ SubSeq(published', 1, Len(published)) = published
                  /\ published'[Len(published')].request.payload = batch[idx + 1].payload
            /\ \/ errors' = errors
               \/ /\ Len(errors') = Len(errors) + 1
                  /\ SubSeq(errors', 1, Len(errors)) = errors]_vars

\* a commit of two messages has ended: the first had no usable address, the
\* publish of the second failed, and the error list names them in that order
C20_Witness ==
    /\ Republishing
    /\ req.confirm
    /\ pc = "done"
    /\ Len(batch) = 2
    /\ Len(errors) = 2
    /\ errors[1].cause = "TypeError"
    /\ errors[2].cause = "publish"

(***************************************************************************)
(* C17: the suffixes of queue names.                                       *)
(***************************************************************************)
\* the last characters of the name are those of the suffix
HasSuffix(name, suffix) ==
    /\ Len(name) >= Len(suffix)
    /\ \A i \in 1..Len(suffix) : name[Len(name) - Len(suffix) + i] = suffix[i]

\* C17: for every queue name n, n + "_error" is an error queue whose source
\* is n and n + "_skipped" is a skipped queue whose source is n; a name that
\* ends in neither suffix is its own source; exactly one suffix is stripped,
\* so a name that ends in a suffix is its source followed by that suffix.
\* The listings agree: a listed queue is named as its source plus the suffix
\* of the listing
C17_SuffixRoundTrip ==
    /\ \A n \in DOMAIN queues :
          /\ isErrorQueue(n \o ERROR_SUFFIX)
          /\ getSourceQueue(n \o ERROR_SUFFIX) = n
          /\ isSkippedQueue(n \o SKIPPED_SUFFIX)
          /\ getSourceQueue(n \o SKIPPED_SUFFIX) = n
          /\ isErrorQueue(n) <=> HasSuffix(n, ERROR_SUFFIX)
          /\ isSkippedQueue(n) <=> HasSuffix(n, SKIPPED_SUFFIX)
          /\ (~HasSuffix(n, ERROR_SUFFIX) /\ ~HasSuffix(n, SKIPPED_SUFFIX))
                => getSourceQueue(n) = n
          /\ HasSuffix(n, ERROR_SUFFIX) => getSourceQueue(n) \o ERROR_SUFFIX = n
          /\ HasSuffix(n, SKIPPED_SUFFIX) => getSourceQueue(n) \o SKIPPED_SUFFIX = n
    /\ (pc = "done" /\ result.kind = "listed") =>
          \A i \in 1..Len(result.reports) :
             result.reports[i].name =
                result.reports[i].source
                \o (IF req.tool = "list_error_queues" THEN ERROR_SUFFIX
                    ELSE SKIPPED_SUFFIX)

\* list_error_queues has listed a queue whose name carries the two suffixes,
\* with a source that still ends in _skipped
C17_Witness ==
    /\ pc = "done"
    /\ req.tool = "list_error_queues"
    /\ result.kind = "listed"
    /\ \E i \in 1..Len(result.reports) :
         /\ HasSuffix(result.reports[i].source, SKIPPED_SUFFIX)
         /\ result.reports[i].name = result.reports[i].source \o ERROR_SUFFIX

(***************************************************************************)
(* C18: the decoding of message type URNs.                                 *)
(***************************************************************************)
\* the strings of the messageType arrays of the messages the broker holds
QueuedTypeNames ==
    UNION {LET types == OptProp(parseEnvelope(m.payload), K_messageType) IN
           IF types.k = "arr"
           THEN {types.v[i].v : i \in {j \in 1..Len(types.v) : types.v[j].k = "str"}}
           ELSE {} : m \in Queued}

\* the first characters of s are "urn:message:"
IsUrn(s) ==
    /\ Len(s) >= Len(UrnPrefix)
    /\ \A i \in 1..Len(UrnPrefix) : s[i] = UrnPrefix[i]

\* C18: getMessageTypeName is total; for a string that starts with
\* "urn:message:" the result is the rest of the string with every ":"
\* replaced by ".", for any other string it is the string itself; applying
\* it twice gives what applying it once gives
C18_TypeNameDecoding ==
    \A s \in QueuedTypeNames \cup {UrnPrefix, <<>>} :
       LET name == getMessageTypeName(s) IN
       /\ IsUrn(s) =>
            /\ Len(name) = Len(s) - Len(UrnPrefix)
            /\ \A i \in 1..Len(name) :
                  name[i] = IF s[Len(UrnPrefix) + i] = ":" THEN "."
                            ELSE s[Len(UrnPrefix) + i]
       /\ ~IsUrn(s) => name = s
       /\ getMessageTypeName(name) = name

\* peek_errors has shown a message whose type is "urn:message:urn:message:A":
\* the decoded name still reads as a URN would without its colons
C18_Witness ==
    /\ FormattedAnswer
    /\ result.kind = "peeked"
    /\ UrnTwice \in QueuedTypeNames
    /\ \E i \in 1..Len(result.reports) :
         /\ result.reports[i].shape = "envelope"
         /\ Occurs(<<"u", "r", "n", ".", "m", "e", "s", "s", "a", "g", "e", ".", "A">>,
                   TextOfLine(result.reports[i], "Message Type"))

(***************************************************************************)
(* C19: the fallback chain of the formatter.                               *)
(***************************************************************************)
\* the shape the chain of classifiers selects for a message
ShapeOf(m) ==
    IF parseFaultFromHeaders(HeadersOf(m)).k = "fault" THEN "header"
    ELSE IF parseFault(m.payload).k = "fault" THEN "body"
    ELSE IF parseEnvelope(m.payload) # JNull THEN "envelope"
    ELSE "raw"

\* the labels of the lines of each shape that no other shape has
MarkOf(shape) ==
    CASE shape = "header" -> "Reason"
      [] shape = "body" -> "Original MessageId"
      [] shape = "envelope" -> "Sent"
      [] shape = "raw" -> "Exchange"

\* the original statement of C19: formatFaultMessage renders, for every
\* message, exactly one of the four shapes, the first of the chain whose
\* classifier does not return absence
C19_ExactlyOneShape ==
    \A m \in Queued :
       LET r == formatFaultMessage(m, 0) IN
       /\ r.ok
       /\ r.shape = ShapeOf(m)
       /\ \A shape \in {"header", "body", "envelope", "raw"} :
             HasLine(r, MarkOf(shape)) <=> shape = ShapeOf(m)

\* the chain is applied in its order whenever formatting returns
C19_ChainWhenReturning ==
    \A m \in Queued :
       LET r == formatFaultMessage(m, 0) IN
       r.ok =>
          /\ r.shape = ShapeOf(m)
          /\ \A shape \in {"header", "body", "envelope", "raw"} :
                HasLine(r, MarkOf(shape)) <=> shape = ShapeOf(m)


(***************************************************************************)
(* C21: the body-based strategy.                                           *)
(***************************************************************************)
\* the outcome p of JSON.parse is a value whose message.exceptions is an
\* array with at least one element
HasBodyExceptions(p) ==
    /\ p.ok
    /\ HasKey(p.val, K_message)
    /\ HasKey(p.val.v[K_message], K_exceptions)
    /\ p.val.v[K_message].v[K_exceptions].k = "arr"
    /\ Len(p.val.v[K_message].v[K_exceptions].v) >= 1

\* o.key when the object holds the key, absence otherwise
KeyOr(o, key) == IF HasKey(o, key) THEN o.v[key] ELSE JUndefined

\* f is what C21 says parseFault returns for the parse outcome p
IsBodyFaultOf(f, p) ==
    IF HasBodyExceptions(p)
    THEN /\ f.k = "fault"
         /\ f.exceptions = p.val.v[K_message].v[K_exceptions]
         /\ f.message = KeyOr(p.val.v[K_message], K_message)
         /\ f.host = KeyOr(p.val, K_host)
    ELSE f = JNull

\* C21: parseFault returns a Fault exactly when the payload is JSON whose
\* message.exceptions is an array with at least one element; the Fault has
\* that array as its exceptions, message.message (when present) as its
\* original payload and envelope.host as its host; for every other payload
\* (no JSON, null, no message, exceptions empty or no array) it returns
\* absence
C21_BodyFaultIffExceptions ==
    \A m \in Queued : IsBodyFaultOf(parseFault(m.payload), JSONparse(m.payload))

\* peek_errors has answered with the body-fault report of a message whose
\* message.message is present, while the queue also held a message whose
\* exceptions are no array or an empty array
C21_Witness ==
    /\ FormattedAnswer
    /\ result.kind = "peeked"
    /\ Len(result.shown) = 2
    /\ parseFault(result.shown[1].payload).k = "fault"
    /\ parseFault(result.shown[1].payload).message.k = "obj"
    /\ result.reports[1].shape = "body"
    /\ result.shown[2].payload \in {PayExceptionsNotArray, PayNoExceptions}
    /\ result.reports[2].shape # "body"

(***************************************************************************)
(* C22: the Message Type line of the header-fault report.                  *)
(***************************************************************************)
\* the messages the broker holds that have a fault in their headers and
\* whose formatting returns
HeaderFaultMessages ==
    {m \in Queued : /\ parseFaultFromHeaders(HeadersOf(m)).k = "fault"
                    /\ formatFaultMessage(m, 0).ok}

\* the messageType of the envelope of a message, absence without envelope
EnvelopeTypesOf(m) == OptProp(parseEnvelope(m.payload), K_messageType)

\* text is what the original statement of C22 puts on the Message Type line
\* for the header value and the envelope's messageType
IsHeaderOrFirstType(text, header, types) ==
    IF header.k # "undefined" THEN text = StringOf(header)
    ELSE (types.k = "arr" /\ Len(types.v) > 0) =>
            text = getMessageTypeName(types.v[1].v)

\* the original statement of C22: the Message Type line of a header-fault
\* report shows the MT-Fault-MessageType header when it is present, and
\* otherwise the decoded first URN of the envelope's messageType, the first
\* only
C22_HeaderOrFirstType ==
    \A m \in HeaderFaultMessages :
       IsHeaderOrFirstType(TextOfLine(formatFaultMessage(m, 0), "Message Type"),
                           Header(HeadersOf(m), K_MT_Fault_MessageType),
                           EnvelopeTypesOf(m))

\* text is the Message Type line for the header value and the envelope's
\* messageType: the header, else every decoded type name, else "unknown"
IsHeaderOrAllTypes(text, header, types) ==
    IF header.k \notin {"undefined", "null"} THEN text = StringOf(header)
    ELSE IF Truthy(types)
    THEN text = Join([i \in 1..Len(types.v) |-> getMessageTypeName(types.v[i].v)],
                     <<",", " ">>)
    ELSE text = T_unknown

\* C22: the Message Type line of a header-fault report shows the
\* MT-Fault-MessageType header when it is present; otherwise it shows the
\* decoded forms of all the URNs of the envelope's messageType, in order and
\* separated by ", ", and "unknown" when the envelope has no messageType
C22_HeaderOrAllTypes ==
    \A m \in HeaderFaultMessages :
       IsHeaderOrAllTypes(TextOfLine(formatFaultMessage(m, 0), "Message Type"),
                          Header(HeadersOf(m), K_MT_Fault_MessageType),
                          EnvelopeTypesOf(m))

\* peek_errors has answered with the header-fault report of a message
\* without MT-Fault-MessageType whose envelope names two types, and both
\* are on the Message Type line
C22_Witness ==
    /\ FormattedAnswer
    /\ result.kind = "peeked"
    /\ Len(result.shown) = 1
    /\ result.reports[1].shape = "header"
    /\ ~HasKey(HeadersOf(result.shown[1]), K_MT_Fault_MessageType)
    /\ EnvelopeTypesOf(result.shown[1]).k = "arr"
    /\ Len(EnvelopeTypesOf(result.shown[1]).v) = 2
    /\ Occurs(<<",", " ">> \o NameBC, TextOfLine(result.reports[1], "Message Type"))

(***************************************************************************)
(* C23: the stack trace of a fault report.                                 *)
(***************************************************************************)
\* the fault formatFaultMessage reports for a message: the one of the
\* headers, else the one of the body, else absence
FaultOf(m) ==
    IF parseFaultFromHeaders(HeadersOf(m)).k = "fault"
    THEN parseFaultFromHeaders(HeadersOf(m))
    ELSE parseFault(m.payload)

\* the stack trace of the primary exception of a fault, absence without one
PrimaryStackOf(fault) ==
    IF fault.k = "fault" THEN OptProp(First(fault.exceptions), K_stackTrace)
    ELSE JUndefined

\* the messages the broker holds whose report is a fault report and whose
\* primary exception has a stack trace
StackTraceMessages ==
    {m \in Queued : /\ formatFaultMessage(m, 0).ok
                    /\ PrimaryStackOf(FaultOf(m)).k = "str"
                    /\ PrimaryStackOf(FaultOf(m)).v # <<>>}

\* t is s without the whitespace around it
IsTrimOf(t, s) ==
    /\ t # <<>> => (t[1] \notin WhiteSpace /\ t[Len(t)] \notin WhiteSpace)
    /\ \E j \in 1..(Len(s) + 1) :
         /\ SubSeq(s, j, j + Len(t) - 1) = t
         /\ \A i \in 1..Len(s) :
              (i < j \/ i > j + Len(t) - 1) => s[i] \in WhiteSpace

\* shown, the lines under "Stack Trace:", are the first min(8, n) of the n
\* lines of the stack trace, each trimmed and indented by four spaces
IsStackShown(shown, traceLines) ==
    /\ Len(shown) = Min(StackLimit, Len(traceLines))
    /\ Len(shown) <= StackLimit
    /\ \A i \in 1..Len(shown) :
         /\ Len(shown[i]) >= 4
         /\ SubSeq(shown[i], 1, 4) = <<" ", " ", " ", " ">>
         /\ IsTrimOf(SubSeq(shown[i], 5, Len(shown[i])), traceLines[i])

OriginalPayloadOf(m) ==
    IF parseFaultFromHeaders(HeadersOf(m)).k = "fault"
    THEN OptProp(parseEnvelope(m.payload), K_message)
    ELSE IF parseFault(m.payload).k = "fault" THEN parseFault(m.payload).message
    ELSE JUndefined

\* the messages the broker holds whose report is a fault report with an
\* original payload
PayloadMessages ==
    {m \in Queued : formatFaultMessage(m, 0).ok /\ Truthy(OriginalPayloadOf(m))}

\* ... (truncated)
TruncationMark ==
    <<".", ".", ".", " ", "(", "t", "r", "u", "n", "c", "a", "t", "e", "d", ")">>

\* text is the pretty-printed payload when that has at most 500 characters,
\* and otherwise its first 500 characters and, on a line of its own, the
\* marker; the marker is there exactly when the payload is longer
IsPayloadShown(text, pretty) ==
    /\ Len(pretty) <= PayloadLimit => text = pretty
    /\ Len(pretty) > PayloadLimit =>
         text = SubSeq(pretty, 1, PayloadLimit) \o <<"\n", " ", " ", " ", " ">>
                \o TruncationMark
    /\ Occurs(TruncationMark, text) <=> Len(pretty) > PayloadLimit

\* C24: in a fault report the Original Payload is the pretty-printed payload
\* when it has at most 500 characters, and otherwise exactly its first 500
\* characters followed by the "... (truncated)" marker; the marker appears
\* if and only if the pretty-printed payload is longer than 500 characters
C24_PayloadTruncation ==
    \A m \in PayloadMessages :
       /\ HasLine(formatFaultMessage(m, 0), "Original Payload")
       /\ IsPayloadShown(TextOfLine(formatFaultMessage(m, 0), "Original Payload"),
                         JSONstringify(OriginalPayloadOf(m)))

\* peek_errors has answered with the reports of two faults, one whose
\* payload has exactly 500 characters and is shown whole, one whose payload
\* has 501 characters and is cut with the marker
C24_Witness ==
    /\ FormattedAnswer
    /\ result.kind = "peeked"
    /\ Len(result.shown) = 2
    /\ Len(JSONstringify(OriginalPayloadOf(result.shown[1]))) = PayloadLimit
    /\ Len(TextOfLine(result.reports[1], "Original Payload")) = PayloadLimit
    /\ Len(JSONstringify(OriginalPayloadOf(result.shown[2]))) = PayloadLimit + 1
    /\ Occurs(TruncationMark, TextOfLine(result.reports[2], "Original Payload"))

(***************************************************************************)
(* C25: what becomes of a message whose publish fails in the commit.       *)
(***************************************************************************)
\* the number of publish requests of the list that the broker accepted
RECURSIVE Accepted(_)
Accepted(requests) ==
    IF requests = <<>> THEN 0
    ELSE (IF Head(requests).outcome # "failed" THEN 1 ELSE 0) + Accepted(Tail(requests))

\* the commit has answered with its report
CommitReported ==
    /\ pc = "done"
    /\ Republishing
    /\ req.confirm
    /\ result.kind = "republished"

\* C25: a message whose publish fails in the commit is not returned to the
\* error queue.  The read removes the batch from the queue; no iteration of
\* the loop puts a message back, and an iteration that records an error
\* adds no accepted publish; so at the report the messages of the batch
\* that no exchange accepted are gone from the queue, and their number is
\* attempted - succeeded, one per error
C25_FailedPublishLosesMessage ==
    /\ [][CommitReadStep =>
            (calls'[1].ok =>
               Len(queues'[req'.queue]) = Len(queues[req'.queue]) - Len(batch'))]_vars
    /\ [][CommitLoopStep =>
            /\ queues' = queues
            /\ errors' # errors => Accepted(published') = Accepted(published)]_vars
    /\ [](CommitReported =>
            /\ result.attempted = Len(batch)
            /\ result.succeeded = Accepted(published)
            /\ result.attempted - result.succeeded = Len(batch) - Accepted(published)
            /\ result.attempted - result.succeeded = Len(result.errors))

\* a commit of one message has answered: its publish failed, the error
\* queue is empty and no exchange accepted the message
C25_Witness ==
    /\ CommitReported
    /\ Len(batch) = 1
    /\ Len(published) = 1
    /\ published[1].outcome = "failed"
    /\ queues[req.queue] = <<>>
    /\ result.attempted - result.succeeded = 1

(***************************************************************************)
(* C26: the labels of the commit's error list.                             *)
(***************************************************************************)
\* C26 (as stated): each entry of the error list is labelled with the
\* 1-based position, in the consumed batch, of the message that failed, so
\* that two failed messages never have the same label
C26_ErrorLabelIsPosition ==
    /\ [][(CommitLoopStep /\ errors' # errors) =>
            errors'[Len(errors')].label = idx + 1]_vars
    /\ [](Republishing /\ req.confirm =>
            \A i, j \in 1..Len(errors) :
               i # j => errors[i].label # errors[j].label)

(***************************************************************************)
(* C27: what the commit counts as republished.                             *)
(***************************************************************************)
\* the number of publish requests of the list that reached a queue
RECURSIVE Routed(_)
Routed(requests) ==
    IF requests = <<>> THEN 0
    ELSE (IF Head(requests).outcome = "routed" THEN 1 ELSE 0) + Routed(Tail(requests))

\* the iteration made a publish call that returned routed = false
UnroutedStep ==
    /\ CommitLoopStep
    /\ Len(published') = Len(published) + 1
    /\ published'[Len(published')].outcome = "unrouted"

\* C27: in the commit a publish call that returns is counted in succeeded
\* also when the broker answers routed = false: such an iteration adds one
\* to the count and no error, and the report's succeeded is the number of
\* publish calls that did not raise, which is at least the number of
\* messages routed to a queue
C27_UnroutedCountsAsSucceeded ==
    /\ [][UnroutedStep => (republished' = republished + 1 /\ errors' = errors)]_vars
    /\ [](CommitReported =>
            /\ result.succeeded
                 = Cardinality({i \in 1..Len(calls) :
                                  calls[i].kind = "publish" /\ calls[i].ok})
            /\ result.succeeded >= Routed(published))

\* a commit of one message has answered "Republished 1/1" although the
\* broker routed the message to no queue
C27_Witness ==
    /\ CommitReported
    /\ Len(batch) = 1
    /\ Len(published) = 1
    /\ published[1].outcome = "unrouted"
    /\ result.succeeded = 1
    /\ result.errors = <<>>
    /\ Routed(published) = 0

(***************************************************************************)
(* C28: a destination address whose path has no segment.                   *)
(***************************************************************************)
\* uri is scheme://authority followed by nothing but slashes
IsPathless(uri) ==
    LET c == IndexOfAny(uri, {":"}, 1)
        a == IndexOfAny(uri, {"/"}, c + 3)
    IN /\ 1 < c
       /\ c + 3 <= Len(uri)
       /\ \A i \in 1..(c - 1) : uri[i] \in Letters
       /\ uri[c + 1] = "/"
       /\ uri[c + 2] = "/"
       /\ \A i \in (c + 3)..(a - 1) : uri[i] \in Letters \cup Digits \cup {":"}
       /\ \A i \in a..Len(uri) : uri[i] = "/"

\* the destinationAddress of the envelope of a message, absence without one
AddressOf(msg) == OptProp(parseEnvelope(msg.payload), K_destinationAddress)

\* the next message of the batch has an address that parses as a URI and
\* whose path has no non-empty segment
NextHasPathlessAddress ==
    /\ AddressOf(batch[idx + 1]).k = "str"
    /\ IsPathless(AddressOf(batch[idx + 1]).v)
    /\ URLparse(AddressOf(batch[idx + 1]).v).ok

\* C28: when the destinationAddress of an envelope parses as a URI whose
\* path has no non-empty segment ("r://h", "r://h/"), the commit does not
\* fall back to the source queue: it publishes the message to the exchange
\* named by the empty string, with the empty routing key
C28_PathlessAddressGivesEmptyExchange ==
    [][(CommitLoopStep /\ NextHasPathlessAddress) =>
         /\ Len(published') = Len(published) + 1
         /\ published'[Len(published')].request.exchange = <<>>
         /\ published'[Len(published')].request.routing_key = <<>>
         /\ published'[Len(published')].request.exchange
              # getSourceQueue(req.queue)]_vars

\* a commit has published two messages, one addressed "r://h" and one
\* addressed "r://h/", to the exchange "" with the routing key ""
C28_Witness ==
    /\ CommitReported
    /\ Len(batch) = 2
    /\ {AddressOf(batch[1]), AddressOf(batch[2])} = {JStr(AddrNoSegment), JStr(AddrSlash)}
    /\ Len(published) = 2
    /\ \A i \in 1..2 : /\ published[i].request.exchange = <<>>
                        /\ published[i].request.routing_key = <<>>

(***************************************************************************)
(* C29: move_messages and a publish that fails.                            *)
(***************************************************************************)
\* the step in which move_messages reads the source queue
MoveReadStep ==
    /\ pc = "idle"
    /\ req'.tool = "move_messages"
    /\ calls'[1].ok

\* one iteration of the loop of move_messages
MoveLoopStep == pc = "move_loop" /\ idx' = idx + 1

\* move_messages has ended on a publish that failed
MoveFailed ==
    /\ pc = "done"
    /\ req.tool = "move_messages"
    /\ published # <<>>
    /\ published[Len(published)].outcome = "failed"

\* C29: move_messages stops at the first publish failure.  The read removes
\* the first min(count, n) messages of the source queue; the loop publishes
\* them in order and leaves the queue alone; when the publish of the k-th
\* message fails the invocation fails with no partial result, messages
\* 1..k-1 have been published and messages k..min(count, n) are neither in
\* the queue nor published
C29_MoveStopsAtFirstFailure ==
    /\ [][MoveReadStep =>
            LET q == req'.queue
                n == Min(peekCountOf(req'.count), Len(queues[q]))
            IN /\ batch' = SubSeq(queues[q], 1, n)
               /\ queues'[q] = SubSeq(queues[q], n + 1, Len(queues[q]))]_vars
    /\ [][MoveLoopStep =>
            /\ queues' = queues
            /\ batch' = batch
            /\ published' = Append(published, published'[idx + 1])
            /\ published'[idx + 1].request.payload = batch[idx + 1].payload
            /\ published'[idx + 1].request.exchange = req.exchange
            /\ (published'[idx + 1].outcome = "failed" =>
                   (pc' = "done" /\ result' = ErrorResponse))]_vars
    /\ [][MoveFailed => (pc' = "idle" /\ queues' = queues)]_vars
    /\ [](MoveFailed =>
            LET k == Len(published) IN
            /\ k <= Len(batch)
            /\ \A i \in 1..(k - 1) :
                 /\ published[i].outcome # "failed"
                 /\ published[i].request.payload = batch[i].payload
            /\ result = ErrorResponse
            /\ result.succeeded = 0)

\* two messages were taken from the source queue, the first was published,
\* the publish of the second failed: the queue is empty and the second
\* message is nowhere
C29_Witness ==
    /\ MoveFailed
    /\ Len(batch) = 2
    /\ Len(published) = 2
    /\ published[1].outcome # "failed"
    /\ batch[1].payload # batch[2].payload
    /\ queues[req.queue] = <<>>
    /\ result = ErrorResponse

(***************************************************************************)
(* C30: the count that purge_queue reports.                                *)
(***************************************************************************)
\* the step in which purge_queue reads the message count of the queue
PurgeCountStep ==
    /\ pc = "idle"
    /\ pc' = "purge"

\* some producer or consumer acts while purge_queue awaits
InterferingStep ==
    /\ pc = "purge"
    /\ pc' = "purge"
    /\ queues' # queues

\* purge_queue has purged the queue and answered
PurgeReported ==
    /\ pc = "done"
    /\ req.tool = "purge_queue"
    /\ result.kind = "purged"

=========================================================================
